---------------------------- MODULE Spec2Model ----------------------------
(***************************************************************************)
(* A model of the streaming chat client: the wire-frame decoders, the      *)
(* reasoning-need classifier, the multi-phase reasoning orchestrators and  *)
(* the conversation turn controller (App.vue sendMessage).                 *)
(*                                                                         *)
(* The repository holds several generations of the message composable.     *)
(* Each generation is modelled from its own source and is selected by a    *)
(* variable fixed in the initial state.                                    *)
(*                                                                         *)
(* Text is modelled as a sequence of characters, each character a string:  *)
(*   "{"  the opening of a frame up to the key of the delta                *)
(*        ({"choices":[{"delta":{ in the wire format)                      *)
(*   "c"  the key "content":      "r"  the key "reasoning":                *)
(*   "q"  a double quote          "}"  the closing of a frame ( }}]} )     *)
(*   "a" "b"  letters of a string value                                    *)
(*   "s"  a space                 "n"  a line feed                         *)
(*   "d" ":"  the two halves of the SSE prefix `data: `                    *)
(*   "!"  the SSE sentinel payload [DONE]                                  *)
(***************************************************************************)
EXTENDS Integers, Sequences, FiniteSets, TLC

VARIABLES
    \* ---- wire-frame decoders ----
    decoder,      \* which decoder runs: processStream | readStream | handleIncomingMessage | idle
    stream,       \* the whole text the server sends
    rest,         \* the part of the stream not yet delivered by reader.read()
    leftover,     \* leftover (processStream) / buffer (readStream, handleIncomingMessage)
    yielded,      \* the deltas yielded so far, in order
    streamDone,   \* reader.read() has returned done and the generator has returned
    sawDone,      \* a `data: [DONE]` line has been read (observation only)
    himPc,        \* where handleIncomingMessage stands: fetch | errorBody | stream | returned | caught
    selectedModel,   \* handleIncomingMessage: the id of the model chosen
    modelParameters, \* handleIncomingMessage: the parameters handed over
    requestBody,     \* handleIncomingMessage: the body of the request as sent (no key before it is built)
    \* ---- conversation storage (part_001) ----
    records,      \* localforage: which ids have an item conversation_<id>
    metadata,     \* localforage: the item conversations_metadata, the ids of its entries in order
    ops,          \* the calls of createConversation / storeMessages / deleteConversation made so far
    \* ---- settings (settings.js) ----
    storedSettings, \* localforage: the item "settings"
    settings,       \* this.settings
    loads,          \* the calls of loadSettings made so far
    save,           \* the call of saveSettings
    \* ---- reasoning-need classifier ----
    clsGen,       \* the generation of shouldUseReasoning: part_005 | part_006 | part_007 | idle
    clsReply,     \* what the classifier request comes back with
    clsResult,    \* how the call of shouldUseReasoning ended
    \* ---- multi-phase orchestrator (streamChainOfThought) ----
    cotGen,       \* the generation that runs: gather (part_006) | adaptive (part_007) | idle
    cotPc,        \* where the generator is suspended
    controllerArg,\* what the caller passes as `controller`: Ref | AbortController
    aborted,      \* controller.abort() has been called (signal.aborted)
    calls,        \* the model calls issued so far, in order: phase, how it was answered, the text
    out,          \* the text yielded so far, word by word
    thrown,       \* what the generator has thrown to its consumer: none | AbortError | Error
    pending,      \* the words of the streamed response not yet read
    \* gather generation
    currentStep, attempts, stepContent, aggregatedContent, lastReviewFeedback,
    \* adaptive generation
    stepCount, reasoningComplete, agentMessages, fullThinkingProcess,
    initialSolveStepText, critiqueResult, reasoningContextForSummary,
    budget,       \* how many events of the run (answers, failures, an abort) may still differ
                  \* from the plain course (bounded input)
    patience,     \* how many reasoning steps may still end without the completion marker (bounded input)
    \* ---- turn controller (App.vue) ----
    messages,     \* messages.value: role, content (words), complete
    isLoading,
    sendPc,       \* where the call of sendMessage stands
    reasoningOverride,  \* the second argument of sendMessage is `true`
    autoReasoningMode,
    useReasoning, \* the local of sendMessage
    turns,        \* how many messages have been accepted
    currConvo,    \* the id of the current conversation, 0 for none
    conversations,\* the stored conversations: id -> messages, <<>> when absent
    storing,      \* the createConversation / storeMessages calls still running
    arrayId,      \* which array messages.value is (it changes when the ref is reassigned)
    switches,     \* how many times the user has switched conversation (bounded input)
    abortAt,      \* where sendMessage stood when the user pressed stop
    controller,   \* controller.value: which AbortController the ref holds (a count)
    lastCall      \* the last call of sendMessage: its number and its message argument

reqVars == <<selectedModel, modelParameters, requestBody>>
dbVars == <<records, metadata, ops>>
\* The variables of the components that are checked on their own ride with
\* those of the decoders in the frame conditions
setVars == <<storedSettings, settings, loads, save>>
aloneVars == <<reqVars, dbVars, setVars>>
decVars == <<decoder, stream, rest, leftover, yielded, streamDone, sawDone, himPc, aloneVars>>
clsVars == <<clsGen, clsReply, clsResult>>
gatherVars == <<currentStep, attempts, stepContent, aggregatedContent, lastReviewFeedback>>
adaptiveVars == <<stepCount, reasoningComplete, agentMessages, fullThinkingProcess,
                  initialSolveStepText, critiqueResult, reasoningContextForSummary>>
cotVars == <<cotGen, cotPc, controllerArg, aborted, calls, out, thrown, pending, budget,
             patience, gatherVars, adaptiveVars>>
turnVars == <<messages, isLoading, sendPc, reasoningOverride, autoReasoningMode,
              useReasoning, turns, currConvo, conversations, storing, arrayId, switches,
              abortAt, controller, lastCall>>

vars == <<decVars, clsVars, cotVars, turnVars>>

-----------------------------------------------------------------------------
(* Bounds of the decoder inputs *)
MaxFrames == 2
MaxLines == 3
(* Bound of the classifier's reply text, in words *)
MaxWords == 3
(* Bound of the critiques of one adaptive run that are not plainly acceptable *)
MaxDeviations == 1
(* Bounds of the turn controller: messages sent, conversation switches *)
MaxTurns == 1
MaxSwitches == 1
(* Bound of the calls of sendMessage that return at its guard *)
MaxRejected == 1
(* Bound of the reasoning steps without completion marker in a turn of the application *)
MaxPatience == 1

(* Program constants *)
MAX_ATTEMPTS == 3
MAX_AGENT_STEPS == 15

-----------------------------------------------------------------------------
(* Text helpers *)

IsWs(ch) == ch \in {"s", "n"}

RECURSIVE TrimStart(_)
TrimStart(s) ==
    IF s = <<>> THEN <<>>
    ELSE IF IsWs(Head(s)) THEN TrimStart(Tail(s)) ELSE s

RECURSIVE TrimEnd(_)
TrimEnd(s) ==
    IF s = <<>> THEN <<>>
    ELSE IF IsWs(s[Len(s)]) THEN TrimEnd(SubSeq(s, 1, Len(s) - 1)) ELSE s

\* String.prototype.trim
Trim(s) == TrimEnd(TrimStart(s))

\* String.prototype.startsWith
StartsWith(s, p) == Len(s) >= Len(p) /\ SubSeq(s, 1, Len(p)) = p

\* The index of the first occurrence of p in s, 0 when there is none
IndexOf(s, p) ==
    LET hits == {i \in 1..(Len(s) - Len(p) + 1) : SubSeq(s, i, i + Len(p) - 1) = p}
    IN IF hits = {} THEN 0 ELSE CHOOSE i \in hits : \A j \in hits : i <= j

\* String.prototype.replace(p, ""): removes the first occurrence of p only
ReplaceFirst(s, p) ==
    LET i == IndexOf(s, p)
    IN IF i = 0 THEN s ELSE SubSeq(s, 1, i - 1) \o SubSeq(s, i + Len(p), Len(s))

\* String.prototype.split("\n")
RECURSIVE SplitLines(_)
SplitLines(s) ==
    LET i == IndexOf(s, <<"n">>)
    IN IF i = 0 THEN <<s>>
       ELSE <<SubSeq(s, 1, i - 1)>> \o SplitLines(SubSeq(s, i + 1, Len(s)))

\* The places where /(?<=\})\s*(?=\{)/ matches: i is the index of a "}" that is
\* followed, after any run of white space, by a "{".
NextBrace(s, i) ==
    LET js == {j \in (i + 1)..Len(s) :
                 /\ s[j] = "{"
                 /\ \A k \in (i + 1)..(j - 1) : IsWs(s[k])}
    IN IF js = {} THEN 0 ELSE CHOOSE j \in js : TRUE

Boundaries(s) == {i \in 1..Len(s) : s[i] = "}" /\ NextBrace(s, i) # 0}

\* String.prototype.split(/(?<=\})\s*(?=\{)/)
RECURSIVE SplitFrames(_)
SplitFrames(s) ==
    LET bs == Boundaries(s)
    IN IF bs = {} THEN <<s>>
       ELSE LET i == CHOOSE b \in bs : \A o \in bs : b <= o
            IN <<SubSeq(s, 1, i)>> \o SplitFrames(SubSeq(s, NextBrace(s, i), Len(s)))

\* JSON.parse of one frame: the text must be a complete object, that is
\* "{" key "q" value "q" "}" with no quote inside the value.  The result is
\* [ok |-> FALSE] when JSON.parse throws, else the key and the value.
ParseFrame(s) ==
    IF /\ Len(s) >= 5
       /\ s[1] = "{" /\ s[2] \in {"c", "r"} /\ s[3] = "q"
       /\ s[Len(s) - 1] = "q" /\ s[Len(s)] = "}"
       /\ \A k \in 4..(Len(s) - 2) : s[k] # "q"
    THEN [ok |-> TRUE, key |-> s[2], value |-> SubSeq(s, 4, Len(s) - 2)]
    ELSE [ok |-> FALSE, key |-> "", value |-> <<>>]

\* One yielded delta: k is "c" for content and "r" for reasoning
Delta(k, t) == [k |-> k, t |-> t]

\* `const content = ...delta?.content; if (content) yield content;`
YieldContent(p) ==
    IF p.ok /\ p.key = "c" /\ p.value # <<>> THEN <<Delta("c", p.value)>> ELSE <<>>

-----------------------------------------------------------------------------
(* Concatenated-JSON decoder: regularMsg.processStream and the summary     *)
(* stream reader of streamChainOfThought (the same loop in both).          *)

\* The for loop over potentialJsons, from index i on; acc is [out, leftover]
RECURSIVE PsPieces(_, _, _)
PsPieces(pieces, i, acc) ==
    IF i > Len(pieces) THEN acc
    ELSE LET potentialJsonString == Trim(pieces[i])
             last == (i = Len(pieces))
         IN IF potentialJsonString = <<>> THEN PsPieces(pieces, i + 1, acc)
            ELSE LET jsonChunk == ParseFrame(potentialJsonString)
                 IN IF jsonChunk.ok
                    THEN PsPieces(pieces, i + 1,
                           [out |-> acc.out \o YieldContent(jsonChunk),
                            leftover |-> IF last THEN <<>> ELSE acc.leftover])
                    ELSE PsPieces(pieces, i + 1,
                           [out |-> acc.out,
                            leftover |-> IF last THEN potentialJsonString
                                         ELSE acc.leftover])

\* One pass of the while loop with a chunk read: [out, leftover]
PsChunk(lo, chunk) ==
    LET textChunk == lo \o chunk
        potentialJsons == SplitFrames(textChunk)
    IN PsPieces(potentialJsons, 1, [out |-> <<>>, leftover |-> <<>>])

\* The pass of the while loop in which read() reports done
PsFinal(lo) ==
    IF Trim(lo) # <<>> THEN YieldContent(ParseFrame(Trim(lo))) ELSE <<>>

\* What the decoder yields when the whole text arrives as one chunk
PsWhole(text) ==
    LET r == PsChunk(<<>>, text) IN r.out \o PsFinal(r.leftover)

-----------------------------------------------------------------------------
(* SSE-style decoders *)

DataPrefix == <<"d", ":">>
DoneLine == <<"d", ":", "!">>

\* readStream: the for loop over the complete lines of one chunk
RECURSIVE RsLines(_, _)
RsLines(lines, i) ==
    IF i > Len(lines) THEN <<>>
    ELSE LET trimmedLine == Trim(lines[i])
         IN IF trimmedLine = <<>> \/ trimmedLine = DoneLine
            THEN RsLines(lines, i + 1)
            ELSE YieldContent(ParseFrame(ReplaceFirst(trimmedLine, DataPrefix)))
                   \o RsLines(lines, i + 1)

\* readStream: one pass of the while loop with a chunk read: [out, buffer]
RsChunk(buffer, chunk) ==
    LET lines == SplitLines(buffer \o chunk)
    IN [out |-> RsLines(SubSeq(lines, 1, Len(lines) - 1), 1),
        buffer |-> lines[Len(lines)]]

RsWhole(text) == RsChunk(<<>>, text).out

\* handleIncomingMessage: the chunks yielded for one parsed frame
HimYield(parsed) ==
    IF ~parsed.ok \/ parsed.value = <<>> THEN <<>>
    ELSE <<Delta(parsed.key, parsed.value)>>

\* handleIncomingMessage: the for loop over the complete lines of one chunk;
\* a [DONE] payload leaves the for loop (`break`), not the while loop
RECURSIVE HimLines(_, _)
HimLines(lines, i) ==
    IF i > Len(lines) THEN <<>>
    ELSE LET line == lines[i]
         IN IF StartsWith(line, DataPrefix)
            THEN LET data == SubSeq(line, Len(DataPrefix) + 1, Len(line))
                 IN IF data = <<"!">> THEN <<>>
                    ELSE HimYield(ParseFrame(data)) \o HimLines(lines, i + 1)
            ELSE HimLines(lines, i + 1)

\* Whether the for loop over these lines reads a [DONE] payload
HimSeesDone(lines) == \E i \in 1..Len(lines) : lines[i] = DoneLine

\* handleIncomingMessage: one pass of the while loop with a chunk read
HimChunk(buffer, chunk) ==
    LET lines == SplitLines(buffer \o chunk)
        complete == SubSeq(lines, 1, Len(lines) - 1)
    IN [out |-> HimLines(complete, 1),
        buffer |-> lines[Len(lines)],
        done |-> HimSeesDone(complete)]

HimWhole(text) == HimChunk(<<>>, text).out

-----------------------------------------------------------------------------
(* Decoder inputs *)

Frame(k, body) == <<"{", k, "q">> \o body \o <<"q", "}">>

\* String values: a letter, values with white space at either end and inside,
\* and a value that holds the text "}{"
Bodies == { <<"a">>, <<"a", "s">>, <<"s", "b">>, <<"a", "s", "b">>, <<"}", "{">> }

\* What may stand between two frames of a concatenated-JSON stream
Separators == { <<>>, <<"n">> }

RECURSIVE JsonStreams(_)
JsonStreams(n) ==
    IF n = 1 THEN { Frame("c", b) : b \in Bodies }
    ELSE JsonStreams(n - 1) \cup
         { st \o sep \o Frame("c", b) :
             st \in JsonStreams(n - 1), sep \in Separators, b \in Bodies }

\* The lines of an SSE stream, each ended by a line feed
SseLines ==
    { DataPrefix \o Frame("c", <<"a">>) \o <<"n">>,
      DataPrefix \o Frame("c", <<"b">>) \o <<"n">>,
      DataPrefix \o Frame("r", <<"a">>) \o <<"n">>,
      DoneLine \o <<"n">>,
      <<"n">> }

\* Frames JSON.parse throws on: a string that is not closed, with and
\* without the closing brace of the object
BrokenFrames == { <<"{", "c", "q", "a", "}">>, <<"{", "c", "q", "a">> }

\* A broken frame followed by a valid one
BrokenJsonStreams ==
    { bad \o sep \o Frame("c", <<"b">>) : bad \in BrokenFrames, sep \in Separators }

\* A line with a broken frame followed by a line with a valid one
BrokenSseStreams ==
    { DataPrefix \o bad \o <<"n">> \o DataPrefix \o Frame("c", <<"b">>) \o <<"n">> :
        bad \in BrokenFrames }

RECURSIVE SseStreams(_)
SseStreams(n) ==
    IF n = 0 THEN { <<>> }
    ELSE SseStreams(n - 1) \cup
         { st \o l : st \in SseStreams(n - 1), l \in SseLines }

-----------------------------------------------------------------------------
(* Reasoning-need classifier: shouldUseReasoning, three generations.       *)
(* The reply text is a sequence of words; "\n" is a line feed, the other   *)
(* words are separated by a space.                                         *)

Words == {"Decision:", "true", "false", "TRUE", "maybe", "\n"}

RECURSIVE Texts(_)
Texts(n) ==
    IF n = 0 THEN { <<>> }
    ELSE Texts(n - 1) \cup { t \o <<w>> : t \in Texts(n - 1), w \in Words }

\* What the request of the classifier can come back with
ClsReplies ==
    { [kind |-> k, text |-> <<>>] :
        k \in {"reject", "non2xx", "noChoices", "noMessage", "noContent"} }
    \cup { [kind |-> "text", text |-> t] : t \in Texts(MaxWords) \ { <<>> } }

\* Values a call returns: a boolean, or a string (the JSON text of a string)
BoolVal(b) == [type |-> "boolean", b |-> b, s |-> <<>>]
StrVal(t) == [type |-> "string", b |-> FALSE, s |-> t]
UndefinedVal == [type |-> "undefined", b |-> FALSE, s |-> <<>>]
Returns(v) == [how |-> "returns", value |-> v]
Throws == [how |-> "throws", value |-> BoolVal(FALSE)]

\* String.prototype.toLowerCase, word by word
Lower(w) == IF w = "TRUE" THEN "true" ELSE IF w = "Decision:" THEN "decision:" ELSE w

\* String.prototype.trim on a text: line feeds at both ends go
RECURSIVE TrimText(_)
TrimText(t) ==
    IF t = <<>> THEN <<>>
    ELSE IF Head(t) = "\n" THEN TrimText(Tail(t))
    ELSE IF t[Len(t)] = "\n" THEN TrimText(SubSeq(t, 1, Len(t) - 1))
    ELSE t

\* rawContent.toLowerCase().includes(word)
Includes(t, word) == \E i \in 1..Len(t) : Lower(t[i]) = word

\* The places where /Decision:\s*(true|false)$/i matches: i is the index of the
\* decision word.  Without the m flag `$` is the end of the text, with it the
\* end of any line.
DecisionMatches(t, multiline) ==
    { i \in 2..Len(t) :
        /\ Lower(t[i]) \in {"true", "false"}
        /\ \E j \in 1..(i - 1) :
             /\ Lower(t[j]) = "decision:"
             /\ \A k \in (j + 1)..(i - 1) : t[k] = "\n"
        /\ \/ i = Len(t)
           \/ multiline /\ t[i + 1] = "\n" }

\* The fallback of part_005: "true" is looked for first
Fallback005(rawContent) ==
    IF Includes(rawContent, "true") THEN TRUE
    ELSE IF Includes(rawContent, "false") THEN FALSE
    ELSE FALSE

\* The fallback of part_007: "true" counts only when "false" is absent
Fallback007(rawContent) ==
    IF Includes(rawContent, "true") /\ ~Includes(rawContent, "false") THEN TRUE
    ELSE IF Includes(rawContent, "false") THEN FALSE
    ELSE FALSE

\* The body of the try block once the reply text is at hand
Decide(rawContent, multiline) ==
    LET ms == DecisionMatches(rawContent, multiline)
    IN IF ms # {}
       THEN LET i == CHOOSE m \in ms : \A o \in ms : m <= o
            IN Lower(rawContent[i]) = "true"
       ELSE IF multiline THEN Fallback007(rawContent) ELSE Fallback005(rawContent)

\* part_005: every failure inside the try block ends in `return false`
ShouldUseReasoning005(reply) ==
    IF reply.kind # "text" THEN Returns(BoolVal(FALSE))
    ELSE Returns(BoolVal(Decide(TrimText(reply.text), FALSE)))

\* part_007: as part_005, with the multiline pattern and the stricter fallback
ShouldUseReasoning007(reply) ==
    IF reply.kind # "text" THEN Returns(BoolVal(FALSE))
    ELSE Returns(BoolVal(Decide(TrimText(reply.text), TRUE)))

\* part_006: no try block and no status check; the reply text is returned as
\* JSON.stringify(content), a string
ShouldUseReasoning006(reply) ==
    IF reply.kind = "text" THEN Returns(StrVal(reply.text))
    ELSE IF reply.kind = "noContent" THEN Returns(UndefinedVal)
    ELSE Throws

ShouldUseReasoning(gen, reply) ==
    CASE gen = "part_005" -> ShouldUseReasoning005(reply)
      [] gen = "part_006" -> ShouldUseReasoning006(reply)
      [] gen = "part_007" -> ShouldUseReasoning007(reply)

Pending == [how |-> "pending", value |-> BoolVal(FALSE)]

ClsIdle == clsGen = "idle" /\ clsReply = [kind |-> "none", text |-> <<>>] /\ clsResult = Pending

ClsInit ==
    /\ clsGen \in {"part_005", "part_006", "part_007"}
    /\ clsReply \in ClsReplies
    /\ clsResult = Pending

\* One call of shouldUseReasoning runs to its end
Classify ==
    /\ clsGen # "idle" /\ clsResult = Pending
    /\ clsResult' = ShouldUseReasoning(clsGen, clsReply)
    /\ UNCHANGED <<clsGen, clsReply>>

-----------------------------------------------------------------------------
(* Decoder state machine: the server's text arrives in chunks of any size. *)

\* JavaScript values of the parameters, as strings
OptionalParams == {"max_tokens", "seed", "presence_penalty", "frequency_penalty"}
SamplingParams == {"temperature", "top_p"}
ParamValues == {"undefined", "null", "0"}

\* `v != null`: neither null nor undefined
NonNull(v) == v \notin {"null", "undefined"}

\* The truthiness of a string or of undefined
Truthy(v) == v \notin {"undefined", "null", ""}

\* availableModels: the flag `reasoning` of each model
availableModels ==
    [id \in {"qwen/qwen3-32b", "openai/gpt-oss-120b", "openai/gpt-oss-20b",
             "meta-llama/llama-4-maverick-17b-128e-instruct",
             "moonshotai/kimi-k2-instruct"} |->
       id \in {"qwen/qwen3-32b", "openai/gpt-oss-120b", "openai/gpt-oss-20b"}]

\* selectedModelInfo && selectedModelInfo.reasoning
ModelReasons(id) == id \in DOMAIN availableModels /\ availableModels[id]

\* modelParameters.reasoning?.enabled && modelParameters.reasoning.effort
EffortWanted(p) ==
    p.reasoning.defined /\ p.reasoning.enabled /\ Truthy(p.reasoning.effort)

\* The keys of the object requestBody
RequestKeys(id, p) ==
    {"model", "messages", "stream"} \cup SamplingParams
    \cup {k \in OptionalParams : NonNull(p[k])}
    \cup (IF ModelReasons(id)
          THEN {"reasoning_format"} \cup (IF EffortWanted(p) THEN {"reasoning_effort"} ELSE {})
          ELSE {})

\* The object requestBody
RequestObject(id, p) ==
    [k \in RequestKeys(id, p) |->
       CASE k = "model" -> id
         [] k = "messages" -> "messagesToSend"
         [] k = "stream" -> "true"
         [] k = "reasoning_format" -> "parsed"
         [] k = "reasoning_effort" -> p.reasoning.effort
         [] OTHER -> p[k]]

\* JSON.stringify of an object: a property whose value is undefined is left
\* out, a property whose value is null is written as null
Stringify(obj) == [k \in {x \in DOMAIN obj : obj[x] # "undefined"} |-> obj[k]]

\* The parameters a caller may hand over
ReasoningInputs ==
    { [defined |-> FALSE, enabled |-> FALSE, effort |-> "undefined"] }
    \cup [defined : {TRUE}, enabled : BOOLEAN, effort : {"undefined", "", "low"}]
ParameterInputs ==
    [temperature : ParamValues, top_p : ParamValues, max_tokens : ParamValues,
     seed : ParamValues, presence_penalty : ParamValues, frequency_penalty : ParamValues,
     reasoning : ReasoningInputs]
ModelInputs == {"qwen/qwen3-32b", "moonshotai/kimi-k2-instruct", "unlisted"}

NoBody == [k \in {} |-> ""]

ReqIdle ==
    /\ selectedModel = "idle"
    /\ modelParameters = [reasoning |-> [defined |-> FALSE, enabled |-> FALSE, effort |-> "undefined"]]
    /\ requestBody = NoBody

ReqInit ==
    /\ selectedModel \in ModelInputs
    /\ modelParameters \in ParameterInputs
    /\ requestBody = NoBody

\* handleIncomingMessage builds the body and hands its serialization to fetch
BuildRequest ==
    /\ selectedModel # "idle" /\ requestBody = NoBody
    /\ requestBody' = Stringify(RequestObject(selectedModel, modelParameters))
    /\ UNCHANGED <<selectedModel, modelParameters>>

-----------------------------------------------------------------------------
(* Conversation storage: every await of the three functions is a step *)

MaxOps == 2
StoreIds == 1..(MaxOps + 1)

\* Array.prototype.filter((m) => m.id !== conversationId)
WithoutId(meta, id) == SelectSeq(meta, LAMBDA m : m # id)

\* The ids createConversation has drawn so far (crypto.randomUUID: never one
\* that exists)
Drawn == {ops[i].id : i \in {j \in 1..Len(ops) : ops[j].kind = "create"}}
FreshId == CHOOSE id \in StoreIds : id # 1 /\ id \notin Drawn /\ \A o \in StoreIds : (o # 1 /\ o \notin Drawn) => id <= o

DbIdle == records = [id \in StoreIds |-> FALSE] /\ metadata = <<>> /\ ops = <<>>

\* One conversation is stored when the application starts
DbInit == records = [id \in StoreIds |-> id = 1] /\ metadata = <<1>> /\ ops = <<>>

\* A call is made: createConversation by the finally block of a first turn,
\* storeMessages by the finally block of a later turn, deleteConversation
\* from the sidebar
StartOp ==
    /\ Len(ops) < MaxOps
    /\ \E kind \in {"create", "store", "delete"} :
         \E id \in (IF kind = "create" THEN {FreshId} ELSE {i \in StoreIds : records[i]}) :
           ops' = Append(ops, [kind |-> kind, id |-> id, local |-> <<>>,
                               pc |-> CASE kind = "create" -> "title"
                                        [] kind = "store" -> "getRecord"
                                        [] kind = "delete" -> "removeRecord"])
    /\ UNCHANGED <<records, metadata>>

\* createConversation: the title request settles; when it fails the catch
\* block ends the call
CreateTitle(i) ==
    /\ ops[i].kind = "create" /\ ops[i].pc = "title"
    /\ \E ok \in BOOLEAN : ops' = [ops EXCEPT ![i].pc = IF ok THEN "setRecord" ELSE "done"]
    /\ UNCHANGED <<records, metadata>>

\* storeMessages: getItem of the record; without a record the call returns
GetRecord(i) ==
    /\ ops[i].kind = "store" /\ ops[i].pc = "getRecord"
    /\ ops' = [ops EXCEPT ![i].pc = IF records[ops[i].id] THEN "setRecord" ELSE "done"]
    /\ UNCHANGED <<records, metadata>>

\* createConversation, storeMessages: setItem of the record
SetRecord(i) ==
    /\ ops[i].pc = "setRecord"
    /\ records' = [records EXCEPT ![ops[i].id] = TRUE]
    /\ ops' = [ops EXCEPT ![i].pc = "getMeta"]
    /\ UNCHANGED metadata

\* deleteConversation: removeItem of the record
RemoveRecord(i) ==
    /\ ops[i].kind = "delete" /\ ops[i].pc = "removeRecord"
    /\ records' = [records EXCEPT ![ops[i].id] = FALSE]
    /\ ops' = [ops EXCEPT ![i].pc = "getMeta"]
    /\ UNCHANGED metadata

\* getItem("conversations_metadata"): the call holds a copy of the index
GetMeta(i) ==
    /\ ops[i].pc = "getMeta"
    /\ ops' = [ops EXCEPT ![i].local = metadata, ![i].pc = "setMeta"]
    /\ UNCHANGED <<records, metadata>>

\* The index the call writes back, computed from its copy
NewMeta(op) ==
    CASE op.kind = "create" -> Append(op.local, op.id)
      [] op.kind = "store" -> Append(WithoutId(op.local, op.id), op.id)
      [] op.kind = "delete" -> WithoutId(op.local, op.id)

\* setItem("conversations_metadata", ...), after which the call returns
SetMeta(i) ==
    /\ ops[i].pc = "setMeta"
    /\ metadata' = NewMeta(ops[i])
    /\ ops' = [ops EXCEPT ![i].pc = "done"]
    /\ UNCHANGED records

-----------------------------------------------------------------------------
(* Settings: every await of loadSettings and saveSettings is a step *)

MaxLoads == 2

\* The prompts: the default one, the default one with other blanks around it,
\* and two prompts of the user
Prompts == {"default", "default padded", "custom", "edited"}

\* String.prototype.trim on a prompt
TrimPrompt(p) == IF p \in {"default", "default padded"} THEN "default trimmed" ELSE p

\* No item in storage
NoSettings == [system_prompt |-> "none", is_default_system_prompt |-> "none"]

\* this.defaultSettings
defaultSettings == [system_prompt |-> "default", is_default_system_prompt |-> "true"]

\* What storage may hold when the application starts: nothing, the settings
\* of a version without the flag, or settings saved by this version
StoredInputs ==
    { NoSettings, defaultSettings,
      [system_prompt |-> "custom", is_default_system_prompt |-> "undefined"],
      [system_prompt |-> "custom", is_default_system_prompt |-> "false"] }

\* loadSettings, the handling of the default state of the prompt
Normalised(s) ==
    IF s.is_default_system_prompt = "true"
    THEN [s EXCEPT !.system_prompt = defaultSettings.system_prompt]
    ELSE IF s.is_default_system_prompt = "undefined"
         THEN [s EXCEPT !.is_default_system_prompt =
                 IF TrimPrompt(s.system_prompt) = TrimPrompt(defaultSettings.system_prompt)
                 THEN "true" ELSE "false"]
         ELSE s

\* saveSettings, the test of the prompt against the default one
Flagged(s) ==
    IF TrimPrompt(s.system_prompt) = TrimPrompt(defaultSettings.system_prompt)
    THEN [s EXCEPT !.is_default_system_prompt = "true",
                   !.system_prompt = defaultSettings.system_prompt]
    ELSE [s EXCEPT !.is_default_system_prompt = "false"]

NewLoad == [pc |-> "get", savedSettings |-> NoSettings]
NoSave == [pc |-> "idle", item |-> NoSettings, load |-> 0, quiet |-> FALSE]

SetIdle ==
    /\ storedSettings = NoSettings /\ settings = NoSettings
    /\ loads = <<>> /\ save = NoSave

\* The constructor: this.settings holds the defaults and loadSettings is called
SetInit ==
    /\ storedSettings \in StoredInputs
    /\ settings = defaultSettings
    /\ loads = <<NewLoad>>
    /\ save = NoSave

\* loadSettings is called once more: on mount, or by the reloadSettings event
MountLoad ==
    /\ Len(loads) < MaxLoads /\ save.pc = "idle"
    /\ loads' = Append(loads, NewLoad)
    /\ UNCHANGED <<storedSettings, settings, save>>

\* loadSettings: getItem("settings") reads the item
LoadGet(i) ==
    /\ loads[i].pc = "get"
    /\ loads' = [loads EXCEPT ![i] = [pc |-> "got", savedSettings |-> storedSettings]]
    /\ UNCHANGED <<storedSettings, settings, save>>

\* loadSettings goes on after the read, up to its next await or to its end
LoadGot(i) ==
    /\ loads[i].pc = "got"
    /\ IF loads[i].savedSettings = NoSettings
       THEN /\ loads' = [loads EXCEPT ![i].pc = "setDefault"]
            /\ UNCHANGED settings
       ELSE LET s == Normalised(loads[i].savedSettings)
            IN IF s.is_default_system_prompt = "true"
               THEN /\ loads' = [loads EXCEPT ![i] = [pc |-> "setBack", savedSettings |-> s]]
                    /\ UNCHANGED settings
               ELSE /\ loads' = [loads EXCEPT ![i] = [pc |-> "done", savedSettings |-> s]]
                    /\ settings' = s
    /\ UNCHANGED <<storedSettings, save>>

\* loadSettings: setItem("settings", this.defaultSettings), then the end
LoadSetDefault(i) ==
    /\ loads[i].pc = "setDefault"
    /\ storedSettings' = defaultSettings
    /\ loads' = [loads EXCEPT ![i].pc = "done"]
    /\ UNCHANGED <<settings, save>>

\* loadSettings: setItem("settings", savedSettings) writes the item
LoadSetBack(i) ==
    /\ loads[i].pc = "setBack"
    /\ storedSettings' = loads[i].savedSettings
    /\ loads' = [loads EXCEPT ![i].pc = "assign"]
    /\ UNCHANGED <<settings, save>>

\* loadSettings: this.settings = savedSettings, then the end
LoadAssign(i) ==
    /\ loads[i].pc = "assign"
    /\ settings' = loads[i].savedSettings
    /\ loads' = [loads EXCEPT ![i].pc = "done"]
    /\ UNCHANGED <<storedSettings, save>>

\* The settings panel writes the prompt to this.settings and calls
\* saveSettings, which sets the flag and calls setItem with the settings
SaveSettings ==
    /\ save.pc = "idle"
    /\ \E p \in Prompts \ {"custom"} :
         LET s == Flagged([settings EXCEPT !.system_prompt = p])
         IN /\ settings' = s
            /\ save' = [pc |-> "set", item |-> s, load |-> 0,
                        quiet |-> \A i \in 1..Len(loads) : loads[i].pc = "done"]
    /\ UNCHANGED <<storedSettings, loads>>

\* saveSettings: setItem writes the item; loadSettings is called
SaveSet ==
    /\ save.pc = "set"
    /\ storedSettings' = save.item
    /\ loads' = Append(loads, NewLoad)
    /\ save' = [save EXCEPT !.pc = "load", !.load = Len(loads) + 1]
    /\ UNCHANGED settings

\* saveSettings: its loadSettings has returned, the call resolves
SaveResolves ==
    /\ save.pc = "load" /\ loads[save.load].pc = "done"
    /\ save' = [save EXCEPT !.pc = "resolved"]
    /\ UNCHANGED <<storedSettings, settings, loads>>

SideIdle == ReqIdle /\ DbIdle /\ SetIdle

StreamIdle ==
    /\ decoder = "idle" /\ stream = <<>> /\ rest = <<>> /\ leftover = <<>>
    /\ yielded = <<>> /\ streamDone = FALSE /\ sawDone = FALSE
    /\ himPc = "idle"

DecIdle == StreamIdle /\ SideIdle

DecInit ==
    /\ SideIdle
    /\ decoder \in {"processStream", "readStream", "handleIncomingMessage"}
    /\ stream \in IF decoder = "processStream"
                  THEN JsonStreams(MaxFrames) \cup BrokenJsonStreams
                  ELSE (SseStreams(MaxLines) \ { <<>> }) \cup BrokenSseStreams
    /\ rest = stream
    /\ leftover = <<>>
    /\ yielded = <<>>
    /\ streamDone = FALSE
    /\ sawDone = FALSE
    /\ himPc = IF decoder = "handleIncomingMessage" THEN "fetch" ELSE "idle"

\* processStream: reader.read() delivers the next n characters
PsRead ==
    /\ decoder = "processStream" /\ ~streamDone
    /\ \E n \in 1..Len(rest) :
         LET r == PsChunk(leftover, SubSeq(rest, 1, n))
         IN /\ yielded' = yielded \o r.out
            /\ leftover' = r.leftover
            /\ rest' = SubSeq(rest, n + 1, Len(rest))
    /\ UNCHANGED <<decoder, stream, streamDone, sawDone, himPc>>

\* processStream: reader.read() reports done
PsEnd ==
    /\ decoder = "processStream" /\ ~streamDone /\ rest = <<>>
    /\ yielded' = yielded \o PsFinal(leftover)
    /\ streamDone' = TRUE
    /\ UNCHANGED <<decoder, stream, rest, leftover, sawDone, himPc>>

\* readStream: reader.read() delivers the next n characters
RsRead ==
    /\ decoder = "readStream" /\ ~streamDone
    /\ \E n \in 1..Len(rest) :
         LET r == RsChunk(leftover, SubSeq(rest, 1, n))
         IN /\ yielded' = yielded \o r.out
            /\ leftover' = r.buffer
            /\ rest' = SubSeq(rest, n + 1, Len(rest))
    /\ UNCHANGED <<decoder, stream, streamDone, sawDone, himPc>>

\* readStream: reader.read() reports done
RsEnd ==
    /\ decoder = "readStream" /\ ~streamDone /\ rest = <<>>
    /\ streamDone' = TRUE
    /\ UNCHANGED <<decoder, stream, rest, leftover, yielded, sawDone, himPc>>

\* handleIncomingMessage: reader.read() delivers the next n characters
HimRead ==
    /\ decoder = "handleIncomingMessage" /\ ~streamDone
    /\ himPc = "stream" /\ ~aborted
    /\ \E n \in 1..Len(rest) :
         LET r == HimChunk(leftover, SubSeq(rest, 1, n))
         IN /\ yielded' = yielded \o r.out
            /\ leftover' = r.buffer
            /\ sawDone' = (sawDone \/ r.done)
            /\ rest' = SubSeq(rest, n + 1, Len(rest))
    /\ UNCHANGED <<decoder, stream, streamDone, himPc>>

\* handleIncomingMessage: reader.read() reports done
HimEnd ==
    /\ decoder = "handleIncomingMessage" /\ ~streamDone /\ rest = <<>>
    /\ himPc = "stream" /\ ~aborted
    /\ streamDone' = TRUE
    /\ himPc' = "returned"
    /\ UNCHANGED <<decoder, stream, rest, leftover, yielded, sawDone>>

\* handleIncomingMessage: the fetch resolves, with a status that is ok or not
HimResponse ==
    /\ decoder = "handleIncomingMessage" /\ himPc = "fetch" /\ ~aborted
    /\ \E ok \in BOOLEAN : himPc' = IF ok THEN "stream" ELSE "errorBody"
    /\ UNCHANGED <<decoder, stream, rest, leftover, yielded, streamDone, sawDone>>

\* The chunk of the catch block for a cancellation, and the one for any other
\* error, which carries error: true and errorDetails
CancelChunk == [k |-> "c", t |-> <<"[STREAM CANCELED]">>]
ErrorChunk == [k |-> "c", t |-> <<"[CRITICAL ERROR]">>, error |-> TRUE]

\* The name of the error that reaches the outer catch.  While the body of a
\* response that is not ok is read, `response.json().catch(() => ({}))` takes
\* any rejection, that of an abort too, and an Error is thrown after it.
HimErrorName(pc, cancelled) ==
    IF cancelled /\ pc # "errorBody" THEN "AbortError" ELSE "Error"

\* A catch block that reports every error as a failure
HimCatchChunkAlwaysError(name) == ErrorChunk

\* The outer catch block: what it yields before the generator returns
HimCatchChunk(name) == IF name = "AbortError" THEN CancelChunk ELSE ErrorChunk

\* handleIncomingMessage: the fetch or a read of the body rejects (an abort,
\* or a failure of the network), or the status is not ok: the catch block
\* yields its chunk and the generator returns
HimCatch ==
    /\ decoder = "handleIncomingMessage" /\ ~streamDone
    /\ himPc \in {"fetch", "errorBody", "stream"}
    /\ yielded' = Append(yielded, HimCatchChunk(HimErrorName(himPc, aborted)))
    /\ streamDone' = TRUE
    /\ himPc' = "caught"
    /\ UNCHANGED <<decoder, stream, rest, leftover, sawDone>>

-----------------------------------------------------------------------------
(* Multi-phase orchestrator, common part *)

\* Whether the `signal` handed to fetch is the signal of the caller's
\* controller.  part_006 reads controller.value.signal (it expects the ref),
\* part_007 reads controller.signal (it expects the AbortController); read on
\* a ref the latter is undefined and the call cannot be aborted.
SignalLive ==
    \/ cotGen = "gather" /\ controllerArg = "Ref"
    \/ cotGen \in {"adaptive", "linear"} /\ controllerArg = "AbortController"

\* The call in flight has been aborted: it can only reject with AbortError
Cancelled == aborted /\ SignalLive

Count(seq, x) == Cardinality({i \in 1..Len(seq) : seq[i] = x})

Last(seq) == seq[Len(seq)]

\* A model call that has just been issued
Issue(phase) == [phase |-> phase, reply |-> "pending", text |-> <<>>]

\* A wrong await: the call in flight is left unanswered
AnswerNotAwaited(log, reply, text) == log

\* The call in flight (the last one issued) is answered
Answer(log, reply, text) ==
    [log EXCEPT ![Len(log)] = [phase |-> log[Len(log)].phase, reply |-> reply, text |-> text]]

\* The positions of the calls of a phase
CallsOf(phase) == {i \in 1..Len(calls) : calls[i].phase = phase}

\* The generator has ended: it has returned or thrown
Ended == cotPc \in {"done", "threw"}

\* The holder of the controller calls controller.abort(); the abort counts
\* among the events of the run that differ from the plain course
Abort ==
    /\ cotGen # "idle" /\ ~aborted /\ ~Ended
    /\ budget > 0
    /\ budget' = budget - 1
    /\ aborted' = TRUE
    /\ UNCHANGED <<cotGen, cotPc, controllerArg, calls, out, thrown, pending, patience,
                   gatherVars, adaptiveVars>>

-----------------------------------------------------------------------------
(* Gather/analyze generation (part_006) *)

Preamble == <<"Let me think this through step by step...">>
RetryMarker == "### RETRY SOLUTION ###"
MaxAttemptsMarker == "### MAX ATTEMPTS REACHED ###"

Header(step) ==
    CASE step = "gather" -> "### GATHER ###"
      [] step = "analyze" -> "### ANALYZE ###"
      [] step = "solve" -> "### SOLVE ###"
      [] step = "review" -> "### REVIEW ###"
      [] step = "plan" -> "### PLAN ###"
      [] step = "reflect" -> "### REFLECT ###"
      [] step = "summarize" -> "### SUMMARIZE ###"

\* The plain answer of the model in a phase
PlainText(step) ==
    CASE step = "gather" -> <<"facts">>
      [] step = "analyze" -> <<"approach">>
      [] step = "solve" -> <<"solution">>
      [] step = "review" -> <<"ACCEPTABLE:", "sound">>
      [] step = "plan" -> <<"steps">>
      [] step = "reflect" -> <<"checked">>
      [] step = "summarize" -> <<"summary">>

\* The other answers the model may give in the REVIEW phase; the empty one is
\* also what a body that is no event stream (an error status) reads as
ReviewOdd ==
    { <<"UNACCEPTABLE:", "wrong">>, <<"looks", "fine">>,
      <<"verdict", "ACCEPTABLE:">>, <<>> }

\* What the model may answer in a phase
PhaseTexts(step) ==
    {PlainText(step)} \cup (IF step = "review" THEN ReviewOdd ELSE {})

\* stepContent.trim().startsWith("ACCEPTABLE:")
ReviewAcceptable(text) == text # <<>> /\ text[1] = "ACCEPTABLE:"

\* A wrong retry test: a fourth attempt is allowed for
CanRetryOffByOne(n) == n < MAX_ATTEMPTS

\* `attempts < MAX_ATTEMPTS - 1`: a retry is still allowed
CanRetry(n) == n < MAX_ATTEMPTS - 1

\* The guard of the phase loop: `currentStep && attempts < MAX_ATTEMPTS`
LoopRuns(step, n) == step # "null" /\ n < MAX_ATTEMPTS

\* A wrong switch: an accepted review ends the loop without a summary
AdvanceEndsOnAcceptance(step, n, text, feedback) ==
    CASE step = "gather" -> [step |-> "analyze", n |-> n, fb |-> feedback, mark |-> <<>>]
      [] step = "analyze" -> [step |-> "solve", n |-> n, fb |-> feedback, mark |-> <<>>]
      [] step = "solve" -> [step |-> "review", n |-> n, fb |-> feedback, mark |-> <<>>]
      [] step = "review" ->
           IF ReviewAcceptable(text)
           THEN [step |-> "null", n |-> n, fb |-> feedback, mark |-> <<>>]
           ELSE IF CanRetry(n)
                THEN [step |-> "solve", n |-> n + 1, fb |-> text, mark |-> <<RetryMarker>>]
                ELSE [step |-> "summarize", n |-> n, fb |-> feedback,
                      mark |-> <<MaxAttemptsMarker>>]
      [] step = "summarize" -> [step |-> "null", n |-> n, fb |-> feedback, mark |-> <<>>]

\* The switch at the end of the loop body: the next phase, the attempts, the
\* feedback kept and the marker yielded
Advance(step, n, text, feedback) ==
    CASE step = "gather" -> [step |-> "analyze", n |-> n, fb |-> feedback, mark |-> <<>>]
      [] step = "analyze" -> [step |-> "solve", n |-> n, fb |-> feedback, mark |-> <<>>]
      [] step = "solve" -> [step |-> "review", n |-> n, fb |-> feedback, mark |-> <<>>]
      [] step = "review" ->
           IF ReviewAcceptable(text)
           THEN [step |-> "summarize", n |-> n, fb |-> feedback, mark |-> <<>>]
           ELSE IF CanRetry(n)
                THEN [step |-> "solve", n |-> n + 1, fb |-> text, mark |-> <<RetryMarker>>]
                ELSE [step |-> "summarize", n |-> n, fb |-> feedback,
                      mark |-> <<MaxAttemptsMarker>>]
      [] step = "summarize" -> [step |-> "null", n |-> n, fb |-> feedback, mark |-> <<>>]

\* The template of prompts.solve, evaluated with the attempts and the feedback
\* of the moment it is evaluated
SolvePrompt(n, feedback) ==
    <<"You are in the SOLUTION phase.">>
    \o (IF n > 0 THEN <<"Previous attempt was UNACCEPTABLE because:">> \o feedback ELSE <<>>)
    \o <<"Solve the problem step by step.">>

\* The object `prompts`: its templates are evaluated once, before the loop,
\* when attempts is 0 and lastReviewFeedback is empty
prompts ==
    [step \in {"gather", "analyze", "solve", "review", "summarize"} |->
       IF step = "solve" THEN SolvePrompt(0, <<>>) ELSE <<PlainText(step)>>]

\* `Your task for this phase: ${prompts[currentStep]}` of the system message
TaskInstructions(step) == prompts[step]

GatherIdle ==
    /\ currentStep = "null" /\ attempts = 0 /\ stepContent = <<>>
    /\ aggregatedContent = <<>> /\ lastReviewFeedback = <<>>

\* The locals of a generator that does not exist (any more)
GatherReset ==
    /\ currentStep' = "null" /\ attempts' = 0 /\ stepContent' = <<>>
    /\ aggregatedContent' = <<>> /\ lastReviewFeedback' = <<>>

\* The generator runs up to its first fetch: the locals are set, the preamble
\* is yielded, the loop is entered and the GATHER phase is called
GStart ==
    /\ cotGen = "gather" /\ cotPc = "start"
    /\ currentStep' = "gather"
    /\ out' = out \o Preamble
    /\ calls' = Append(calls, Issue("gather"))
    /\ cotPc' = "fetch"
    /\ UNCHANGED <<cotGen, controllerArg, aborted, thrown, pending, budget, patience, attempts,
                   stepContent, aggregatedContent, lastReviewFeedback, adaptiveVars>>

\* The fetch of the current phase resolves (whatever the status: response.ok
\* is not looked at); the phase header is yielded
GFetchResolve ==
    /\ cotGen = "gather" /\ cotPc = "fetch" /\ ~Cancelled
    /\ \E text \in PhaseTexts(currentStep) :
         /\ text # PlainText(currentStep) => budget > 0
         /\ budget' = IF text = PlainText(currentStep) THEN budget ELSE budget - 1
         /\ pending' = text
    /\ out' = Append(out, Header(currentStep))
    /\ stepContent' = <<>>
    /\ cotPc' = "read"
    /\ UNCHANGED <<cotGen, controllerArg, aborted, calls, thrown, patience, currentStep,
                   attempts, aggregatedContent, lastReviewFeedback, adaptiveVars>>

\* The fetch or a read of the body rejects: AbortError after an abort, any
\* other error while the budget lasts.  Nothing catches it in the generator.
GReject ==
    /\ cotGen = "gather" /\ cotPc \in {"fetch", "read"}
    /\ Cancelled \/ budget > 0
    /\ budget' = IF Cancelled THEN budget ELSE budget - 1
    /\ thrown' = IF Cancelled THEN "AbortError" ELSE "Error"
    /\ calls' = Answer(calls, IF Cancelled THEN "aborted" ELSE "error", stepContent)
    /\ cotPc' = "threw"
    /\ UNCHANGED <<cotGen, controllerArg, aborted, out, pending, patience,
                   gatherVars, adaptiveVars>>

\* readStream yields the next delta of the phase
GRead ==
    /\ cotGen = "gather" /\ cotPc = "read" /\ ~Cancelled /\ pending # <<>>
    /\ stepContent' = Append(stepContent, Head(pending))
    /\ out' = Append(out, Head(pending))
    /\ pending' = Tail(pending)
    /\ UNCHANGED <<cotGen, cotPc, controllerArg, aborted, calls, thrown, budget, patience,
                   currentStep, attempts, aggregatedContent, lastReviewFeedback,
                   adaptiveVars>>

\* The body of the phase ends: the phase is stored, the separator yielded,
\* the switch taken, the loop guard tested and the next fetch issued
GPhaseEnd ==
    /\ cotGen = "gather" /\ cotPc = "read" /\ ~Cancelled /\ pending = <<>>
    /\ LET nx == Advance(currentStep, attempts, stepContent, lastReviewFeedback)
       IN /\ aggregatedContent' =
               Append(aggregatedContent, [phase |-> currentStep, text |-> stepContent])
          /\ out' = Append(out, "---") \o nx.mark
          /\ currentStep' = nx.step
          /\ attempts' = nx.n
          /\ lastReviewFeedback' = nx.fb
          /\ IF LoopRuns(nx.step, nx.n)
             THEN /\ calls' = Append(Answer(calls, "text", stepContent), Issue(nx.step))
                  /\ cotPc' = "fetch"
             ELSE /\ calls' = Answer(calls, "text", stepContent)
                  /\ cotPc' = "done"
    /\ UNCHANGED <<cotGen, controllerArg, aborted, thrown, pending, budget, patience, stepContent,
                   adaptiveVars>>

GatherNext == GStart \/ GFetchResolve \/ GReject \/ GRead \/ GPhaseEnd

-----------------------------------------------------------------------------
(* Adaptive generation (part_007) *)

InitialMsg == <<"Let me think this through step by step...">>
CompletionMarker == "REASONING COMPLETE."
MaxStepMsg == "[System: Reached maximum reasoning steps without signaling completion.]"
SummarySeparator == "### SUMMARIZE ###"
StepErrorMsg == "[System Error: AI response missing content at step.]"
CorrectionErrorMsg == "[System Error: Failed to generate correction for step.]"
SummaryStreamErrorMsg == "[Error: Failed to stream summary response.]"
ErrorMarker == "--- ERROR ---"
AbortMarker == "--- ABORTED ---"

\* What the model may answer to a reasoning step and to a correction
StepTexts == { <<"thought">>, <<"thought", CompletionMarker>> }
CorrectionTexts == { <<"refined">>, <<"refined", CompletionMarker>> }
SummaryTexts == { <<"summary">> }

\* The plainly acceptable critique, and the other critiques the model may give
CritiqueOk == <<"Critique Result:", "Acceptable">>
CritiqueOdd ==
    { <<"Critique Result:", "Flawed", "Reason:", "leap">>,
      <<"seems", "fine">> }

\* lowerOutput.match(/critique result:\s*(acceptable|flawed)/): the verdict
\* word of the first match, "none" without a match
CritiqueVerdict(text) ==
    LET hits == {i \in 1..(Len(text) - 1) :
                    /\ text[i] = "Critique Result:"
                    /\ text[i + 1] \in {"Acceptable", "Flawed"}}
    IN IF hits = {} THEN "none"
       ELSE text[(CHOOSE i \in hits : \A j \in hits : i <= j) + 1]

\* A critique parser that fails open
IsAcceptableUnlessFlawed(text) == CritiqueVerdict(text) # "Flawed"

\* isAcceptable = resultMatch ? resultMatch[1] === "acceptable" : false
IsAcceptable(text) == CritiqueVerdict(text) = "Acceptable"

\* critiqueOutput.match(/reason:\s*([\s\S]*)/i): what follows "Reason:", or
\* the stock reason of the verdict
CritiqueReason(text, isFlawed) ==
    LET hits == {i \in 1..Len(text) : text[i] = "Reason:"}
    IN IF hits # {}
       THEN SubSeq(text, (CHOOSE i \in hits : \A j \in hits : i <= j) + 1, Len(text))
       ELSE IF isFlawed THEN <<"Critique identified potential flaws.">>
            ELSE <<"Step appears sound.">>

ParseCritique(text) ==
    [isFlawed |-> ~IsAcceptable(text),
     reason |-> CritiqueReason(text, ~IsAcceptable(text))]

\* The critique result a step starts with
DefaultCritique ==
    [isFlawed |-> FALSE, reason |-> <<"Critique step failed or produced invalid output.">>]

\* completionRegex.test(currentHistoryContent)
CompletionTest(text) == text # <<>> /\ Last(text) = CompletionMarker

\* currentHistoryContent.replace(completionRegex, "").trim()
StripMarker(text) == IF CompletionTest(text) THEN SubSeq(text, 1, Len(text) - 1) ELSE text

Msg(role, content) == [role |-> role, content |-> content]

InitialAgentMessages ==
    << Msg("system", <<"agentSystemPrompt">>), Msg("system", <<"memory">>),
       Msg("system", <<"history">>), Msg("user", <<"prompt">>) >>

\* Array.prototype.filter on the role
Filter(seq, role) ==
    LET F[i \in 0..Len(seq)] ==
          IF i = 0 THEN <<>>
          ELSE IF seq[i].role = role THEN Append(F[i - 1], seq[i]) ELSE F[i - 1]
    IN F[Len(seq)]

\* Array.prototype.slice(-n)
SliceLast(seq, n) == IF Len(seq) <= n THEN seq ELSE SubSeq(seq, Len(seq) - n + 1, Len(seq))

\* A wrong trimming: the prompt of the user is not kept
TrimHistoryDropsUser(msgs) ==
    IF Len(msgs) > 15
    THEN Filter(msgs, "system") \o SliceLast(Filter(msgs, "assistant"), 5)
    ELSE msgs

\* "Prevent conversation history getting too long"
TrimHistory(msgs) ==
    IF Len(msgs) > 15
    THEN Filter(msgs, "system") \o SubSeq(Filter(msgs, "user"), 1, 1)
            \o SliceLast(Filter(msgs, "assistant"), 5)
    ELSE msgs

\* text.lastIndexOf(word), counted from 0; -1 when absent
LastIndexOf(text, word) ==
    LET hits == {i \in 1..Len(text) : text[i] = word}
    IN IF hits = {} THEN 0 - 1 ELSE (CHOOSE i \in hits : \A j \in hits : j <= i) - 1

\* text.substring(0, end): a negative end counts as 0
Substring0(text, end) == SubSeq(text, 1, IF end < 0 THEN 0 ELSE end)

\* A wrong loop guard: a sixteenth step is allowed for
StepLoopRunsOffByOne(n, complete) == n <= MAX_AGENT_STEPS /\ ~complete

\* The guard of the step loop
StepLoopRuns(n, complete) == n < MAX_AGENT_STEPS /\ ~complete

AdaptiveIdle ==
    /\ stepCount = 0 /\ reasoningComplete = FALSE /\ agentMessages = <<>>
    /\ fullThinkingProcess = <<>> /\ initialSolveStepText = <<>>
    /\ critiqueResult = DefaultCritique /\ reasoningContextForSummary = <<>>

AdaptiveReset ==
    /\ stepCount' = 0 /\ reasoningComplete' = FALSE /\ agentMessages' = <<>>
    /\ fullThinkingProcess' = <<>> /\ initialSolveStepText' = <<>>
    /\ critiqueResult' = DefaultCritique /\ reasoningContextForSummary' = <<>>

\* From the test of the loop guard on: the next reasoning step is called, or
\* the loop is left, the max-steps notice yielded where it applies, the
\* separator yielded and the summary called.  log, o and ftp are the calls,
\* the yielded text and the thinking process as they stand at the test.
ALoop(complete, log, o, ftp) ==
    /\ reasoningComplete' = complete
    /\ IF StepLoopRuns(stepCount, complete)
       THEN /\ stepCount' = stepCount + 1
            /\ calls' = Append(log, Issue("step"))
            /\ out' = o
            /\ fullThinkingProcess' = ftp
            /\ reasoningContextForSummary' = reasoningContextForSummary
            /\ cotPc' = "step"
       ELSE LET notice == IF stepCount >= MAX_AGENT_STEPS /\ ~complete
                          THEN <<MaxStepMsg>> ELSE <<>>
                ftp1 == ftp \o notice
            IN /\ stepCount' = stepCount
               /\ calls' = Append(log, Issue("summarize"))
               /\ out' = Append(o \o notice, SummarySeparator)
               /\ reasoningContextForSummary' =
                     Substring0(ftp1, LastIndexOf(ftp1, SummarySeparator))
               /\ fullThinkingProcess' = Append(ftp1, SummarySeparator)
               /\ cotPc' = "summarize"

\* The generator runs up to its first call: the initial message is yielded,
\* the history is set up, the loop is entered and the first step is called
AStart ==
    /\ cotGen = "adaptive" /\ cotPc = "start"
    /\ agentMessages' = InitialAgentMessages
    /\ ALoop(FALSE, calls, out \o InitialMsg, InitialMsg)
    /\ UNCHANGED <<cotGen, controllerArg, aborted, thrown, pending, budget, patience, gatherVars,
                   initialSolveStepText, critiqueResult>>

\* The end of a loop turn: the final text of the turn goes into the history,
\* the completion marker is looked for, the history is trimmed
AEndTurn(hist, log, o, ftp) ==
    /\ agentMessages' = TrimHistory(Append(agentMessages, Msg("assistant", hist)))
    /\ ALoop(CompletionTest(hist), log, o, ftp)

\* The outer catch: the error or the abort marker is yielded and the
\* generator returns
ACatch(reply) ==
    /\ calls' = Answer(calls, reply, Last(calls).text)
    /\ out' = Append(out, IF reply = "aborted" THEN AbortMarker ELSE ErrorMarker)
    /\ fullThinkingProcess' =
          Append(fullThinkingProcess, IF reply = "aborted" THEN AbortMarker ELSE ErrorMarker)
    /\ cotPc' = "done"

\* A call rejects: with AbortError after an abort, else because of the
\* network or of a status that is not 2xx
Rejection == IF Cancelled THEN "aborted" ELSE "error"

\* The call of a reasoning step is answered with a text
AStepText ==
    /\ cotGen = "adaptive" /\ cotPc = "step" /\ ~Cancelled
    /\ \E text \in StepTexts :
         /\ ~CompletionTest(text) => patience > 0
         /\ patience' = IF CompletionTest(text) THEN patience ELSE patience - 1
         /\ initialSolveStepText' = text
         /\ calls' = Append(Answer(calls, "text", text), Issue("critique"))
         /\ out' = out \o text
         /\ fullThinkingProcess' = fullThinkingProcess \o <<"[Agent Step - Attempt]">> \o text
    /\ critiqueResult' = DefaultCritique
    /\ cotPc' = "critique"
    /\ UNCHANGED <<cotGen, controllerArg, aborted, thrown, pending, budget, gatherVars,
                   stepCount, reasoningComplete, agentMessages,
                   reasoningContextForSummary>>

\* The call of a reasoning step is answered without content
AStepNoContent ==
    /\ cotGen = "adaptive" /\ cotPc = "step" /\ ~Cancelled
    /\ budget > 0
    /\ budget' = budget - 1
    /\ ALoop(TRUE, Answer(calls, "noContent", <<>>), Append(out, StepErrorMsg),
             Append(fullThinkingProcess, StepErrorMsg))
    /\ UNCHANGED <<cotGen, controllerArg, aborted, thrown, pending, patience, gatherVars,
                   agentMessages, initialSolveStepText, critiqueResult>>

\* The call of a reasoning step, of a correction or of the summary rejects,
\* or the summary stream does
AReject ==
    /\ cotGen = "adaptive" /\ cotPc \in {"step", "correct", "summarize", "read"}
    /\ Cancelled \/ budget > 0
    /\ budget' = IF Cancelled THEN budget ELSE budget - 1
    /\ ACatch(Rejection)
    /\ UNCHANGED <<cotGen, controllerArg, aborted, thrown, pending, patience, gatherVars,
                   stepCount, reasoningComplete, agentMessages, initialSolveStepText,
                   critiqueResult, reasoningContextForSummary>>

\* The critique call is answered with a text, which _parseCritique reads;
\* a flawed step is followed by the correction call
ACritiqueText ==
    /\ cotGen = "adaptive" /\ cotPc = "critique" /\ ~Cancelled
    /\ \E text \in {CritiqueOk} \cup CritiqueOdd :
         LET res == ParseCritique(text)
             log == Answer(calls, "text", text)
             ftp == fullThinkingProcess
                       \o <<"[Internal Critique]", IF res.isFlawed THEN "Flawed" ELSE "Acceptable">>
                       \o res.reason
         IN /\ text # CritiqueOk => budget > 0
            /\ budget' = IF text = CritiqueOk THEN budget ELSE budget - 1
            /\ critiqueResult' = res
            /\ IF res.isFlawed
               THEN /\ calls' = Append(log, Issue("correct"))
                    /\ fullThinkingProcess' =
                          ftp \o <<"[System Requesting Correction]">> \o res.reason
                    /\ cotPc' = "correct"
                    /\ UNCHANGED <<out, stepCount, reasoningComplete, agentMessages,
                                   reasoningContextForSummary>>
               ELSE AEndTurn(initialSolveStepText, log, out, ftp)
    /\ UNCHANGED <<cotGen, controllerArg, aborted, thrown, pending, patience, gatherVars,
                   initialSolveStepText>>

\* A wrong fallback: a critique that fails counts as a flaw and the
\* correction is called
ACritiqueFailsThenCorrects ==
    /\ cotGen = "adaptive" /\ cotPc = "critique" /\ ~Cancelled
    /\ budget > 0
    /\ budget' = budget - 1
    /\ \E reply \in {"noContent", "error"} :
         calls' = Append(Answer(calls, reply, <<>>), Issue("correct"))
    /\ critiqueResult' = [DefaultCritique EXCEPT !.isFlawed = TRUE]
    /\ fullThinkingProcess' = Append(fullThinkingProcess, "[System Requesting Correction]")
    /\ cotPc' = "correct"
    /\ UNCHANGED <<cotGen, controllerArg, aborted, thrown, pending, patience, gatherVars,
                   initialSolveStepText, out, stepCount, reasoningComplete, agentMessages,
                   reasoningContextForSummary>>

\* The critique call is answered without content, or fails for a reason
\* other than an abort: the step is assumed acceptable
ACritiqueFails ==
    /\ cotGen = "adaptive" /\ cotPc = "critique" /\ ~Cancelled
    /\ budget > 0
    /\ budget' = budget - 1
    /\ \E reply \in {"noContent", "error"} :
         AEndTurn(initialSolveStepText, Answer(calls, reply, <<>>), out,
                  fullThinkingProcess \o <<"[Internal Critique]", "Error", "Assumed acceptable.">>)
    /\ critiqueResult' = DefaultCritique
    /\ UNCHANGED <<cotGen, controllerArg, aborted, thrown, pending, patience, gatherVars,
                   initialSolveStepText>>

\* The critique call is aborted: the error is thrown again to the outer catch
ACritiqueAborted ==
    /\ cotGen = "adaptive" /\ cotPc = "critique" /\ Cancelled
    /\ ACatch("aborted")
    /\ UNCHANGED <<cotGen, controllerArg, aborted, thrown, pending, budget, patience, gatherVars,
                   stepCount, reasoningComplete, agentMessages, initialSolveStepText,
                   critiqueResult, reasoningContextForSummary>>

\* The correction call is answered with a text, which replaces the step
ACorrectText ==
    /\ cotGen = "adaptive" /\ cotPc = "correct" /\ ~Cancelled
    /\ \E text \in CorrectionTexts :
         AEndTurn(text, Answer(calls, "text", text), out \o text,
                  fullThinkingProcess \o <<"[Correction Step]">> \o text)
    /\ UNCHANGED <<cotGen, controllerArg, aborted, thrown, pending, budget, patience, gatherVars,
                   initialSolveStepText, critiqueResult>>

\* The correction call is answered without content: the step stands
ACorrectNoContent ==
    /\ cotGen = "adaptive" /\ cotPc = "correct" /\ ~Cancelled
    /\ AEndTurn(initialSolveStepText, Answer(calls, "noContent", <<>>),
                Append(out, CorrectionErrorMsg),
                Append(fullThinkingProcess, CorrectionErrorMsg))
    /\ UNCHANGED <<cotGen, controllerArg, aborted, thrown, pending, budget, patience, gatherVars,
                   initialSolveStepText, critiqueResult>>

\* The summary call resolves with a body to stream
ASummaryResolve ==
    /\ cotGen = "adaptive" /\ cotPc = "summarize" /\ ~Cancelled
    /\ \E text \in SummaryTexts : pending' = text
    /\ cotPc' = "read"
    /\ UNCHANGED <<cotGen, controllerArg, aborted, calls, out, thrown, budget, patience, gatherVars,
                   adaptiveVars>>

\* The summary call resolves without a body
ASummaryNoBody ==
    /\ cotGen = "adaptive" /\ cotPc = "summarize" /\ ~Cancelled
    /\ budget > 0
    /\ budget' = budget - 1
    /\ calls' = Answer(calls, "noContent", <<>>)
    /\ out' = Append(out, SummaryStreamErrorMsg)
    /\ cotPc' = "done"
    /\ UNCHANGED <<cotGen, controllerArg, aborted, thrown, pending, patience, gatherVars,
                   adaptiveVars>>

\* processSummaryStream yields the next delta of the summary
ASummaryRead ==
    /\ cotGen = "adaptive" /\ cotPc = "read" /\ ~Cancelled /\ pending # <<>>
    /\ out' = Append(out, Head(pending))
    /\ calls' = [calls EXCEPT ![Len(calls)].text = Append(@, Head(pending))]
    /\ pending' = Tail(pending)
    /\ UNCHANGED <<cotGen, cotPc, controllerArg, aborted, thrown, budget, patience, gatherVars,
                   adaptiveVars>>

\* The summary stream ends and the generator returns
ASummaryEnd ==
    /\ cotGen = "adaptive" /\ cotPc = "read" /\ ~Cancelled /\ pending = <<>>
    /\ calls' = [calls EXCEPT ![Len(calls)].reply = "text"]
    /\ cotPc' = "done"
    /\ UNCHANGED <<cotGen, controllerArg, aborted, out, thrown, pending, budget, patience,
                   gatherVars, adaptiveVars>>

AdaptiveNext ==
    \/ AStart \/ AStepText \/ AStepNoContent \/ AReject
    \/ ACritiqueText \/ ACritiqueFails \/ ACritiqueAborted
    \/ ACorrectText \/ ACorrectNoContent
    \/ ASummaryResolve \/ ASummaryNoBody \/ ASummaryRead \/ ASummaryEnd

-----------------------------------------------------------------------------
(* Plan/solve/reflect generation (part_005).  planText, solveText and
   reflectionText are kept, in this order, as the records of
   aggregatedContent; currentStep is the phase whose call is in flight. *)

\* The order of the phases in the body of the generator
NextPhase(step) ==
    CASE step = "plan" -> "solve"
      [] step = "solve" -> "reflect"
      [] step = "reflect" -> "summarize"

\* The preamble and the PLAN header are yielded and the PLAN call is issued
LStart ==
    /\ cotGen = "linear" /\ cotPc = "start"
    /\ currentStep' = "plan"
    /\ out' = out \o Preamble \o <<Header("plan")>>
    /\ calls' = Append(calls, Issue("plan"))
    /\ cotPc' = "call"
    /\ UNCHANGED <<cotGen, controllerArg, aborted, thrown, pending, budget, patience, attempts,
                   stepContent, aggregatedContent, lastReviewFeedback, adaptiveVars>>

\* The call of a phase answers with a message: its text is kept and yielded,
\* the header of the next phase is yielded and the next call is issued
LPhaseText ==
    /\ cotGen = "linear" /\ cotPc = "call" /\ ~Cancelled
    /\ LET text == PlainText(currentStep)
           nx == NextPhase(currentStep)
       IN /\ aggregatedContent' =
                Append(aggregatedContent, [phase |-> currentStep, text |-> text])
          /\ out' = out \o text \o <<Header(nx)>>
          /\ calls' = Append(Answer(calls, "text", text), Issue(nx))
          /\ currentStep' = nx
          /\ cotPc' = IF nx = "summarize" THEN "summarize" ELSE "call"
    /\ UNCHANGED <<cotGen, controllerArg, aborted, thrown, pending, budget, patience, attempts,
                   stepContent, lastReviewFeedback, adaptiveVars>>

\* Anything thrown inside the try (a rejected or aborted call, an answer
\* without a message, a summary without a body) reaches the catch: the error
\* or the abort marker is yielded and the generator returns
LCatch ==
    /\ cotGen = "linear" /\ cotPc \in {"call", "summarize", "read"}
    /\ \E reply \in {"aborted", "error", "noContent"} :
         /\ IF Cancelled THEN reply = "aborted"
            ELSE reply # "aborted" /\ budget > 0 /\ (reply = "noContent" => cotPc # "read")
         /\ calls' = Answer(calls, reply, Last(calls).text)
         /\ out' = Append(out, IF reply = "aborted" THEN AbortMarker ELSE ErrorMarker)
    /\ budget' = IF Cancelled THEN budget ELSE budget - 1
    /\ cotPc' = "done"
    /\ UNCHANGED <<cotGen, controllerArg, aborted, thrown, pending, patience, gatherVars,
                   adaptiveVars>>

\* The streamed summary call resolves with a body
LSummaryResolve ==
    /\ cotGen = "linear" /\ cotPc = "summarize" /\ ~Cancelled
    /\ \E text \in SummaryTexts : pending' = text
    /\ cotPc' = "read"
    /\ UNCHANGED <<cotGen, controllerArg, aborted, calls, out, thrown, budget, patience, gatherVars,
                   adaptiveVars>>

\* The read loop yields the next delta of the summary
LSummaryRead ==
    /\ cotGen = "linear" /\ cotPc = "read" /\ ~Cancelled /\ pending # <<>>
    /\ out' = Append(out, Head(pending))
    /\ calls' = [calls EXCEPT ![Len(calls)].text = Append(@, Head(pending))]
    /\ pending' = Tail(pending)
    /\ UNCHANGED <<cotGen, cotPc, controllerArg, aborted, thrown, budget, patience, gatherVars,
                   adaptiveVars>>

\* The summary stream ends and the generator returns
LSummaryEnd ==
    /\ cotGen = "linear" /\ cotPc = "read" /\ ~Cancelled /\ pending = <<>>
    /\ calls' = [calls EXCEPT ![Len(calls)].reply = "text"]
    /\ cotPc' = "done"
    /\ UNCHANGED <<cotGen, controllerArg, aborted, out, thrown, pending, budget, patience,
                   gatherVars, adaptiveVars>>

-----------------------------------------------------------------------------
(* The orchestrator called on its own, with the controller it expects *)

\* No generator exists
CotIdle ==
    /\ cotGen = "idle" /\ cotPc = "idle" /\ controllerArg = "none" /\ aborted = FALSE
    /\ calls = <<>> /\ out = <<>> /\ thrown = "none" /\ pending = <<>>
    /\ budget = 0 /\ patience = 0
    /\ GatherIdle /\ AdaptiveIdle

\* A generator has been created and has not run yet
CotFresh ==
    /\ cotPc = "start" /\ calls = <<>> /\ out = <<>> /\ thrown = "none" /\ pending = <<>>
    /\ GatherIdle /\ AdaptiveIdle

CotInit ==
    /\ aborted = FALSE
    /\ CotFresh
    /\ \/ /\ cotGen = "gather" /\ controllerArg = "Ref"
          /\ budget = MAX_ATTEMPTS /\ patience = 0
       \/ /\ cotGen = "adaptive" /\ controllerArg = "AbortController"
          /\ budget = MaxDeviations /\ patience = MAX_AGENT_STEPS + 1
       \/ /\ cotGen = "linear" /\ controllerArg = "AbortController"
          /\ budget = MaxDeviations /\ patience = 0

-----------------------------------------------------------------------------
(* Turn controller: App.vue.  sendMessage is cut at its awaits; the message *)
(* composable it is linked with is clsGen (part_006 or part_007), and the   *)
(* `controller` it hands over is the ref.                                   *)

\* The messages sendMessage pushes.  reasoningDuration is the list of the values
\* written to the property: empty while the property is undefined.
UserMsg ==
    [role |-> "user", content |-> <<"prompt">>, complete |-> TRUE, reasoningDuration |-> <<>>]
AssistantMsg ==
    [role |-> "assistant", content |-> <<>>, complete |-> FALSE, reasoningDuration |-> <<>>]

\* "Error: " + error.message
ErrorText == <<"Error:", "message">>

\* The chunk of the error stream of regularMsg (part_007)
FailedResponseText == <<"[Error: Failed to get response]">>

\* What the single call may stream
RegularTexts == { <<"answer">>, <<"an", "answer">> }

\* What the classifier request may come back with in a turn
TurnReplies ==
    { [kind |-> "reject", text |-> <<>>], [kind |-> "noContent", text |-> <<>>],
      [kind |-> "text", text |-> <<"true">>], [kind |-> "text", text |-> <<"false">>],
      [kind |-> "text", text |-> <<"Decision:", "true">>] }

Unset == [type |-> "unset", b |-> FALSE, s |-> <<>>]

\* The ids of the conversations: 1 is a conversation stored by an earlier
\* session, the conversation created in turn n gets n + 1
ConvIds == 1..(MaxTurns + 2)
StoredBefore ==
    << UserMsg, [role |-> "assistant", content |-> <<"answer">>, complete |-> TRUE,
                 reasoningDuration |-> <<>>] >>

\* messages.value[messages.value.length - 1].content += chunk
AddContent(m, chunk) == [m EXCEPT ![Len(m)].content = @ \o chunk]
SetContent(m, text) == [m EXCEPT ![Len(m)].content = text]
SetComplete(m) == [m EXCEPT ![Len(m)].complete = TRUE]

\* reasoningCompleted - startTime, the clock counted in the chunks the loop
\* has received since startTime was read
Elapsed == Len(out)

\* messages.value[messages.value.length - 1].reasoningDuration = ...
SetDuration(m) == [m EXCEPT ![Len(m)].reasoningDuration = Append(@, Elapsed)]

\* useReasoning === "\"true\""
UsesOrchestrator(u) == u = StrVal(<<"true">>)

\* The signal regularMsg hands to fetch is the controller's: part_006 reads
\* controller.value.signal, part_007 controller.signal, which a ref has not
RegularCancelled ==
    /\ aborted
    /\ \/ clsGen = "part_006" /\ controllerArg = "Ref"
       \/ clsGen = "part_007" /\ controllerArg = "AbortController"

\* The call the finally block makes to store the conversation
StoreCall(m) ==
    IF Len(m) = 2
    THEN << [kind |-> "create", conv |-> turns + 1, array |-> arrayId, captured |-> m] >>
    ELSE IF Len(m) > 2
         THEN << [kind |-> "store", conv |-> currConvo, array |-> arrayId, captured |-> m] >>
         ELSE << >>

\* The finally block, entered with the messages m.  On an empty list the
\* first statement throws a TypeError: nothing is marked, isLoading stays,
\* and the call of sendMessage rejects.
Finally(m) ==
    IF m = <<>>
    THEN [messages |-> m, isLoading |-> isLoading, sendPc |-> "rejected",
          storing |-> storing]
    ELSE [messages |-> SetComplete(m), isLoading |-> FALSE, sendPc |-> "returned",
          storing |-> storing \o StoreCall(SetComplete(m))]

\* The catch block, then the finally block.  On an empty list the assignment
\* of the error text throws in its turn.
Catch(m, name) ==
    IF name = "AbortError" \/ m = <<>> THEN Finally(m)
    ELSE Finally(SetContent(m, ErrorText))

Apply(r) ==
    /\ messages' = r.messages
    /\ isLoading' = r.isLoading
    /\ sendPc' = r.sendPc
    /\ storing' = r.storing

\* The body of a `for await` loop receives a chunk
Deliver(chunk) ==
    IF chunk = <<>> THEN UNCHANGED <<messages, isLoading, sendPc, storing>>
    ELSE IF messages = <<>> THEN Apply(Catch(messages, "TypeError"))
    ELSE /\ messages' = AddContent(messages, chunk)
         /\ UNCHANGED <<isLoading, sendPc, storing>>

TurnInit ==
    /\ messages = <<>> /\ isLoading = FALSE /\ sendPc = "idle"
    /\ reasoningOverride = FALSE /\ autoReasoningMode \in BOOLEAN
    /\ useReasoning = Unset /\ turns = 0 /\ currConvo = 0
    /\ conversations = [c \in ConvIds |-> IF c = 1 THEN StoredBefore ELSE <<>>]
    /\ storing = <<>> /\ arrayId = 0 /\ switches = 0
    /\ abortAt = [pc |-> "none", calls |-> 0]
    /\ controller = 0 /\ lastCall = [n |-> 0, message |-> <<>>]
    /\ clsGen \in {"part_006", "part_007"}
    /\ clsReply = [kind |-> "none", text |-> <<>>] /\ clsResult = Pending
    /\ cotGen = "idle" /\ cotPc = "idle" /\ controllerArg = "Ref" /\ aborted = FALSE
    /\ calls = <<>> /\ out = <<>> /\ thrown = "none" /\ pending = <<>>
    /\ budget = 0 /\ patience = 0
    /\ GatherIdle /\ AdaptiveIdle

TurnIdle ==
    /\ messages = <<>> /\ isLoading = FALSE /\ sendPc = "idle"
    /\ reasoningOverride = FALSE /\ autoReasoningMode = FALSE
    /\ useReasoning = Unset /\ turns = 0 /\ currConvo = 0
    /\ conversations = [c \in ConvIds |-> <<>>]
    /\ storing = <<>> /\ arrayId = 0 /\ switches = 0
    /\ abortAt = [pc |-> "none", calls |-> 0]
    /\ controller = 0 /\ lastCall = [n |-> 0, message |-> <<>>]

\* sendMessage(message, reasoningOverride) with a message that is not blank,
\* up to the first await: a new controller, the two messages, isLoading
StartTurn(override) ==
    /\ reasoningOverride' = override
    /\ lastCall' = [n |-> lastCall.n + 1, message |-> UserMsg.content]
    /\ controller' = controller + 1
    /\ aborted' = FALSE
    /\ abortAt' = [pc |-> "none", calls |-> 0]
    /\ messages' = messages \o <<UserMsg, AssistantMsg>>
    /\ isLoading' = TRUE
    /\ turns' = turns + 1
    /\ useReasoning' = Unset
    /\ sendPc' = "memory"
    /\ clsReply' = [kind |-> "none", text |-> <<>>] /\ clsResult' = Pending
    /\ cotGen' = "idle" /\ cotPc' = "idle"
    /\ calls' = <<>> /\ out' = <<>> /\ thrown' = "none" /\ pending' = <<>>
    /\ budget' = 0 /\ patience' = 0
    /\ GatherReset /\ AdaptiveReset
    /\ UNCHANGED <<clsGen, controllerArg, autoReasoningMode, currConvo, conversations,
                   storing, arrayId, switches, decVars>>

\* What the user may hand to sendMessage: nothing, blanks, or the prompt
MessageInputs == {<<>>, <<"s">>, <<"s", "n">>, UserMsg.content}

\* A guard that looks at the message only
RejectsBlankOnly(message, loading) == Trim(message) = <<>>

\* `!message.trim() || isLoading.value`: the call returns at once
Rejects(message, loading) == Trim(message) = <<>> \/ loading

\* A turn of the application: the guard `isLoading.value` of sendMessage,
\* with or without the reasoning override
SendMessage ==
    /\ ~isLoading /\ turns < MaxTurns
    /\ \E override \in BOOLEAN : StartTurn(override)

\* A call of sendMessage from the input box (no override), with any message
\* and at any time, in a conversation that goes on for one turn more: it
\* returns at the guard or starts the turn
SendNextMessage ==
    \E message \in MessageInputs :
      IF Rejects(message, isLoading)
      THEN /\ lastCall.n - turns < MaxRejected
           /\ lastCall' = [n |-> lastCall.n + 1, message |-> message]
           /\ UNCHANGED <<messages, isLoading, sendPc, reasoningOverride, autoReasoningMode,
                          useReasoning, turns, currConvo, conversations, storing, arrayId,
                          switches, abortAt, controller, clsVars, cotVars, decVars>>
      ELSE /\ turns < MaxTurns + 1
           /\ StartTurn(FALSE)

\* The try block is entered with the value of useReasoning: the orchestrator
\* is created, or regularMsg is called
EnterTry(u) ==
    /\ useReasoning' = u
    /\ IF UsesOrchestrator(u)
       THEN /\ cotGen' = (IF clsGen = "part_006" THEN "gather" ELSE "adaptive")
            /\ cotPc' = "start"
            /\ patience' = MaxPatience
            /\ budget' = MaxDeviations
            /\ sendPc' = "cot"
       ELSE /\ sendPc' = "regular"
            /\ UNCHANGED <<cotGen, cotPc, patience, budget>>
    /\ UNCHANGED <<controllerArg, aborted, calls, out, thrown, pending,
                   gatherVars, adaptiveVars, messages, isLoading, storing>>

\* localforage.getItem("global_chatbot_memory") resolves; useReasoning is set
\* from the override or the setting, or the classifier is called
MemoryLoaded ==
    /\ sendPc = "memory"
    /\ IF reasoningOverride THEN EnterTry(StrVal(<<"true">>))
       ELSE IF autoReasoningMode
            THEN /\ sendPc' = "classify"
                 /\ UNCHANGED <<useReasoning, cotVars, messages, isLoading, storing>>
            ELSE EnterTry(StrVal(<<"false">>))
    /\ UNCHANGED <<reasoningOverride, autoReasoningMode, turns, currConvo, conversations,
                   arrayId, switches, abortAt, controller, lastCall, clsVars, decVars>>

\* localforage.getItem rejects: the await is outside the try block, the call
\* of sendMessage rejects
MemoryFails ==
    /\ sendPc = "memory"
    /\ sendPc' = "rejected"
    /\ UNCHANGED <<messages, isLoading, reasoningOverride, autoReasoningMode, useReasoning,
                   turns, currConvo, conversations, storing, arrayId, switches, abortAt, controller, lastCall,
                   clsVars, cotVars, decVars>>

\* shouldUseReasoning settles; the await is outside the try block
ClassifierSettles ==
    /\ sendPc = "classify"
    /\ \E reply \in TurnReplies :
         LET res == ShouldUseReasoning(clsGen, reply)
         IN /\ clsReply' = reply
            /\ clsResult' = res
            /\ IF res.how = "throws"
               THEN /\ sendPc' = "rejected"
                    /\ UNCHANGED <<useReasoning, cotVars, messages, isLoading, storing>>
               ELSE EnterTry(res.value)
    /\ UNCHANGED <<clsGen, reasoningOverride, autoReasoningMode, turns, currConvo,
                   conversations, arrayId, switches, abortAt, controller, lastCall, decVars>>

\* The loop over streamChainOfThought: the generator runs to its next await
\* and the loop body appends what it has yielded to the last message
CotStep ==
    /\ sendPc = "cot" /\ ~Ended
    /\ (GatherNext \/ AdaptiveNext)
    /\ Deliver(SubSeq(out', Len(out) + 1, Len(out')))
    /\ UNCHANGED <<reasoningOverride, autoReasoningMode, useReasoning, turns, currConvo,
                   conversations, arrayId, switches, abortAt, controller, lastCall, clsVars, decVars>>

\* The generator has returned: the duration is written on the last message
\* and the finally block runs
CotReturns ==
    /\ sendPc = "cot" /\ cotPc = "done"
    /\ Apply(IF messages = <<>> THEN Catch(messages, "TypeError")
             ELSE Finally(SetDuration(messages)))
    /\ UNCHANGED <<reasoningOverride, autoReasoningMode, useReasoning, turns, currConvo,
                   conversations, arrayId, switches, abortAt, controller, lastCall, clsVars, cotVars, decVars>>

\* The generator has thrown: the catch block, then the finally block
CotThrows ==
    /\ sendPc = "cot" /\ cotPc = "threw"
    /\ Apply(Catch(messages, thrown))
    /\ UNCHANGED <<reasoningOverride, autoReasoningMode, useReasoning, turns, currConvo,
                   conversations, arrayId, switches, abortAt, controller, lastCall, clsVars, cotVars, decVars>>

\* The fetch of regularMsg resolves.  part_006 returns the Response, which is
\* not iterable: the loop throws a TypeError.  part_007 returns the generator
\* that reads the body.
RegularResolves ==
    /\ sendPc = "regular" /\ ~RegularCancelled
    /\ IF clsGen = "part_006"
       THEN Apply(Catch(messages, "TypeError")) /\ UNCHANGED pending
       ELSE /\ \E text \in RegularTexts : pending' = text
            /\ sendPc' = "regularRead"
            /\ UNCHANGED <<messages, isLoading, storing>>
    /\ UNCHANGED <<reasoningOverride, autoReasoningMode, useReasoning, turns, currConvo,
                   conversations, arrayId, switches, abortAt, controller, lastCall, clsVars, decVars,
                   cotGen, cotPc, controllerArg, aborted, calls, out, thrown, budget,
                   patience, gatherVars, adaptiveVars>>

\* The fetch of regularMsg rejects.  part_006 lets the error through to the
\* catch block of sendMessage; part_007 returns a stream of one error chunk.
RegularRejects ==
    /\ sendPc = "regular"
    /\ IF clsGen = "part_006"
       THEN Apply(Catch(messages, IF RegularCancelled THEN "AbortError" ELSE "Error"))
       ELSE Apply(IF messages = <<>> THEN Catch(messages, "TypeError")
                  ELSE Finally(AddContent(messages, FailedResponseText)))
    /\ UNCHANGED <<reasoningOverride, autoReasoningMode, useReasoning, turns, currConvo,
                   conversations, arrayId, switches, abortAt, controller, lastCall, clsVars, cotVars, decVars>>

\* processStream of regularMsg (part_007) yields the next delta
RegularRead ==
    /\ sendPc = "regularRead" /\ pending # <<>> /\ ~RegularCancelled
    /\ Deliver(<<Head(pending)>>)
    /\ pending' = Tail(pending)
    /\ UNCHANGED <<reasoningOverride, autoReasoningMode, useReasoning, turns, currConvo,
                   conversations, arrayId, switches, abortAt, controller, lastCall, clsVars, decVars,
                   cotGen, cotPc, controllerArg, aborted, calls, out, thrown, budget,
                   patience, gatherVars, adaptiveVars>>

\* processStream of regularMsg (part_007) ends, or a read of the body rejects
RegularEnds ==
    /\ sendPc = "regularRead"
    /\ \/ pending = <<>> /\ ~RegularCancelled /\ Apply(Finally(messages))
       \/ Apply(Catch(messages, IF RegularCancelled THEN "AbortError" ELSE "Error"))
    /\ UNCHANGED <<reasoningOverride, autoReasoningMode, useReasoning, turns, currConvo,
                   conversations, arrayId, switches, abortAt, controller, lastCall, clsVars, cotVars, decVars>>

\* The user presses the stop button, shown while isLoading: controller.abort()
UserAbort ==
    /\ isLoading /\ ~aborted
    /\ sendPc \in {"memory", "classify", "cot", "regular", "regularRead"}
    /\ aborted' = TRUE
    /\ abortAt' = [pc |-> IF sendPc = "cot" THEN cotPc ELSE sendPc, calls |-> Len(calls)]
    /\ UNCHANGED <<controller, lastCall, messages, isLoading, sendPc, reasoningOverride, autoReasoningMode,
                   useReasoning, turns, currConvo, conversations, storing, arrayId,
                   switches, clsVars, decVars, cotGen, cotPc, controllerArg, calls, out,
                   thrown, pending, budget, patience, gatherVars, adaptiveVars>>

\* What a running createConversation / storeMessages call writes: the array
\* it was given, as it is when the write happens
Snapshot(op) == IF op.array = arrayId THEN messages ELSE op.captured

Remove(seq, i) == SubSeq(seq, 1, i - 1) \o SubSeq(seq, i + 1, Len(seq))

\* createConversation resolves with the new id, the conversation stored
CreateDone ==
    /\ \E i \in 1..Len(storing) :
         /\ storing[i].kind = "create"
         /\ conversations' = [conversations EXCEPT ![storing[i].conv] = Snapshot(storing[i])]
         /\ currConvo' = storing[i].conv
         /\ storing' = Remove(storing, i)
    /\ UNCHANGED <<messages, isLoading, sendPc, reasoningOverride, autoReasoningMode,
                   useReasoning, turns, arrayId, switches, abortAt, controller, lastCall, clsVars, cotVars,
                   decVars>>

\* createConversation fails to get a title: nothing is stored, it resolves
\* with undefined
CreateFails ==
    /\ \E i \in 1..Len(storing) :
         /\ storing[i].kind = "create"
         /\ currConvo' = 0
         /\ storing' = Remove(storing, i)
    /\ UNCHANGED <<messages, isLoading, sendPc, reasoningOverride, autoReasoningMode,
                   useReasoning, turns, conversations, arrayId, switches, abortAt, controller, lastCall,
                   clsVars, cotVars, decVars>>

\* storeMessages resolves: the conversation is overwritten when it exists
StoreDone ==
    /\ \E i \in 1..Len(storing) :
         /\ storing[i].kind = "store"
         /\ conversations' =
              IF storing[i].conv \in ConvIds /\ conversations[storing[i].conv] # <<>>
              THEN [conversations EXCEPT ![storing[i].conv] = Snapshot(storing[i])]
              ELSE conversations
         /\ storing' = Remove(storing, i)
    /\ UNCHANGED <<messages, isLoading, sendPc, reasoningOverride, autoReasoningMode,
                   useReasoning, turns, currConvo, arrayId, switches, abortAt, controller, lastCall, clsVars,
                   cotVars, decVars>>

\* newConversation()
NewConversation ==
    /\ switches < MaxSwitches
    /\ currConvo' = 0
    /\ messages' = <<>>
    /\ arrayId' = arrayId + 1
    /\ switches' = switches + 1
    /\ UNCHANGED <<isLoading, sendPc, reasoningOverride, autoReasoningMode, useReasoning,
                   turns, conversations, storing, abortAt, controller, lastCall, clsVars, cotVars, decVars>>

\* changeConversation(id), for a conversation of the sidebar
ChangeConversation ==
    /\ switches < MaxSwitches
    /\ \E id \in ConvIds :
         /\ conversations[id] # <<>>
         /\ currConvo' = id
         /\ messages' = conversations[id]
    /\ arrayId' = arrayId + 1
    /\ switches' = switches + 1
    /\ UNCHANGED <<isLoading, sendPc, reasoningOverride, autoReasoningMode, useReasoning,
                   turns, conversations, storing, abortAt, controller, lastCall, clsVars, cotVars, decVars>>

\* deleteConversation(id), for a conversation of the sidebar
DeleteConversation ==
    /\ switches < MaxSwitches
    /\ \E id \in ConvIds :
         /\ conversations[id] # <<>>
         /\ conversations' = [conversations EXCEPT ![id] = <<>>]
         /\ IF currConvo = id
            THEN currConvo' = 0 /\ messages' = <<>> /\ arrayId' = arrayId + 1
            ELSE UNCHANGED <<currConvo, messages, arrayId>>
    /\ switches' = switches + 1
    /\ UNCHANGED <<isLoading, sendPc, reasoningOverride, autoReasoningMode, useReasoning,
                   turns, storing, abortAt, controller, lastCall, clsVars, cotVars, decVars>>

-----------------------------------------------------------------------------
(* Specifications *)

\* The orchestrator on its own
CotAlone == UNCHANGED <<decVars, clsVars, turnVars>>

CotNext ==
    \/ Abort /\ CotAlone
    \/ GStart /\ CotAlone
    \/ GFetchResolve /\ CotAlone
    \/ GReject /\ CotAlone
    \/ GRead /\ CotAlone
    \/ GPhaseEnd /\ CotAlone
    \/ AStart /\ CotAlone
    \/ AStepText /\ CotAlone
    \/ AStepNoContent /\ CotAlone
    \/ AReject /\ CotAlone
    \/ ACritiqueText /\ CotAlone
    \/ ACritiqueFails /\ CotAlone
    \/ ACritiqueAborted /\ CotAlone
    \/ ACorrectText /\ CotAlone
    \/ ACorrectNoContent /\ CotAlone
    \/ ASummaryResolve /\ CotAlone
    \/ ASummaryNoBody /\ CotAlone
    \/ ASummaryRead /\ CotAlone
    \/ ASummaryEnd /\ CotAlone
    \/ LStart /\ CotAlone
    \/ LPhaseText /\ CotAlone
    \/ LCatch /\ CotAlone
    \/ LSummaryResolve /\ CotAlone
    \/ LSummaryRead /\ CotAlone
    \/ LSummaryEnd /\ CotAlone

InitCoT == CotInit /\ DecIdle /\ ClsIdle /\ TurnIdle
SpecCoT == InitCoT /\ [][CotNext]_vars

\* The holder of the controller handed to handleIncomingMessage calls
\* controller.abort() while the generator runs
HimAbort ==
    /\ decoder = "handleIncomingMessage" /\ ~streamDone /\ ~aborted
    /\ aborted' = TRUE
    /\ UNCHANGED <<decVars, clsVars, turnVars, cotGen, cotPc, controllerArg, calls, out,
                   thrown, pending, budget, patience, gatherVars, adaptiveVars>>

\* A decoder on its own
DecAlone == UNCHANGED <<clsVars, cotVars, turnVars, aloneVars>>

DecNext ==
    \/ PsRead /\ DecAlone
    \/ PsEnd /\ DecAlone
    \/ RsRead /\ DecAlone
    \/ RsEnd /\ DecAlone
    \/ HimRead /\ DecAlone
    \/ HimEnd /\ DecAlone
    \/ HimResponse /\ DecAlone
    \/ HimCatch /\ DecAlone
    \/ HimAbort

InitDecode == DecInit /\ ClsIdle /\ CotIdle /\ TurnIdle
SpecDecode == InitDecode /\ [][DecNext]_vars

\* The classifier on its own
ClsNext == Classify /\ UNCHANGED <<decVars, cotVars, turnVars>>

InitClassify == ClsInit /\ DecIdle /\ CotIdle /\ TurnIdle
SpecClassify == InitClassify /\ [][ClsNext]_vars

\* The application: the turn controller with the composable it is linked with
Init == TurnInit /\ DecIdle

Next ==
    \/ SendMessage
    \/ MemoryLoaded
    \/ MemoryFails
    \/ ClassifierSettles
    \/ CotStep
    \/ CotReturns
    \/ CotThrows
    \/ RegularResolves
    \/ RegularRejects
    \/ RegularRead
    \/ RegularEnds
    \/ UserAbort
    \/ CreateDone
    \/ CreateFails
    \/ StoreDone
    \/ NewConversation
    \/ ChangeConversation
    \/ DeleteConversation

Spec == Init /\ [][Next]_vars

\* The steps of sendMessage itself: every promise it awaits settles and the
\* event loop runs its continuation
TurnProgress ==
    \/ MemoryLoaded
    \/ MemoryFails
    \/ ClassifierSettles
    \/ CotStep
    \/ CotReturns
    \/ CotThrows
    \/ RegularResolves
    \/ RegularRejects
    \/ RegularRead
    \/ RegularEnds

\* The application with every awaited promise settling in the end
SpecLive == Init /\ [][Next]_vars /\ WF_vars(TurnProgress)

\* The turns of one conversation and its storage: reasoning is off, every
\* turn takes the single-call path, and the conversation goes on for one
\* turn more than in the application above
InitStore == TurnInit /\ ~autoReasoningMode /\ DecIdle

StoreNext ==
    \/ SendNextMessage
    \/ MemoryLoaded
    \/ RegularResolves
    \/ RegularRejects
    \/ RegularRead
    \/ RegularEnds
    \/ CreateDone
    \/ CreateFails
    \/ StoreDone

SpecStore == InitStore /\ [][StoreNext]_vars

\* The single-call path of part_007 with the controller regularMsg expects:
\* sendMessage drives regularMsg, which is handed an AbortController
InitRegular ==
    /\ clsGen = "part_007" /\ autoReasoningMode = FALSE /\ controllerArg = "AbortController"
    /\ messages = <<>> /\ isLoading = FALSE /\ sendPc = "idle"
    /\ reasoningOverride = FALSE /\ useReasoning = Unset /\ turns = 0 /\ currConvo = 0
    /\ conversations = [c \in ConvIds |-> IF c = 1 THEN StoredBefore ELSE <<>>]
    /\ storing = <<>> /\ arrayId = 0 /\ switches = 0
    /\ abortAt = [pc |-> "none", calls |-> 0]
    /\ controller = 0 /\ lastCall = [n |-> 0, message |-> <<>>]
    /\ clsReply = [kind |-> "none", text |-> <<>>] /\ clsResult = Pending
    /\ cotGen = "idle" /\ cotPc = "idle" /\ aborted = FALSE
    /\ calls = <<>> /\ out = <<>> /\ thrown = "none" /\ pending = <<>>
    /\ budget = 0 /\ patience = 0
    /\ GatherIdle /\ AdaptiveIdle /\ DecIdle

RegularNext ==
    \/ SendNextMessage
    \/ MemoryLoaded
    \/ RegularResolves
    \/ RegularRejects
    \/ RegularRead
    \/ RegularEnds
    \/ UserAbort
    \/ CreateDone
    \/ CreateFails
    \/ StoreDone

SpecRegular == InitRegular /\ [][RegularNext]_vars

\* The request of handleIncomingMessage on its own
RequestNext ==
    /\ BuildRequest
    /\ UNCHANGED <<decoder, stream, rest, leftover, yielded, streamDone, sawDone, himPc,
                   dbVars, setVars, clsVars, cotVars, turnVars>>

InitRequest == ReqInit /\ DbIdle /\ SetIdle /\ StreamIdle /\ ClsIdle /\ CotIdle /\ TurnIdle
SpecRequest == InitRequest /\ [][RequestNext]_vars

\* The conversation storage on its own
DbAlone ==
    UNCHANGED <<decoder, stream, rest, leftover, yielded, streamDone, sawDone, himPc,
                reqVars, setVars, clsVars, cotVars, turnVars>>

StorageNext ==
    \/ StartOp /\ DbAlone
    \/ \E i \in 1..Len(ops) : CreateTitle(i) /\ DbAlone
    \/ \E i \in 1..Len(ops) : GetRecord(i) /\ DbAlone
    \/ \E i \in 1..Len(ops) : SetRecord(i) /\ DbAlone
    \/ \E i \in 1..Len(ops) : RemoveRecord(i) /\ DbAlone
    \/ \E i \in 1..Len(ops) : GetMeta(i) /\ DbAlone
    \/ \E i \in 1..Len(ops) : SetMeta(i) /\ DbAlone

InitStorage == DbInit /\ ReqIdle /\ SetIdle /\ StreamIdle /\ ClsIdle /\ CotIdle /\ TurnIdle
SpecStorage == InitStorage /\ [][StorageNext]_vars

\* The settings on their own
SetAlone ==
    UNCHANGED <<decoder, stream, rest, leftover, yielded, streamDone, sawDone, himPc,
                reqVars, dbVars, clsVars, cotVars, turnVars>>

SettingsNext ==
    \/ MountLoad /\ SetAlone
    \/ \E i \in 1..Len(loads) : LoadGet(i) /\ SetAlone
    \/ \E i \in 1..Len(loads) : LoadGot(i) /\ SetAlone
    \/ \E i \in 1..Len(loads) : LoadSetDefault(i) /\ SetAlone
    \/ \E i \in 1..Len(loads) : LoadSetBack(i) /\ SetAlone
    \/ \E i \in 1..Len(loads) : LoadAssign(i) /\ SetAlone
    \/ SaveSettings /\ SetAlone
    \/ SaveSet /\ SetAlone
    \/ SaveResolves /\ SetAlone

InitSettings == SetInit /\ ReqIdle /\ DbIdle /\ StreamIdle /\ ClsIdle /\ CotIdle /\ TurnIdle
SpecSettings == InitSettings /\ [][SettingsNext]_vars
-----------------------------------------------------------------------------
(* Claims about the decoders *)

\* C3 (as stated): when the concatenated-JSON decoder has consumed a stream of
\* complete frames, cut into chunks in any way, the deltas it has yielded are
\* those it yields when the stream arrives as one chunk.
C3_ChunkingPreservesJsonDeltas ==
    (decoder = "processStream" /\ streamDone) => yielded = PsWhole(stream)

\* C4 (as stated): when an SSE-style decoder has consumed a stream of
\* newline-terminated lines, cut into chunks in any way, the deltas it has
\* yielded are those it yields when the stream arrives as one chunk.
C4_ChunkingPreservesSseDeltas ==
    /\ (decoder = "readStream" /\ streamDone) => yielded = RsWhole(stream)
    /\ (decoder = "handleIncomingMessage" /\ himPc = "returned")
         => yielded = HimWhole(stream)

-----------------------------------------------------------------------------
(* Claims about the classifier *)

\* C8 (as stated): shouldUseReasoning never throws, and it resolves to false
\* when the request rejects, answers with a non-2xx status, answers without
\* choices[0].message.content, or answers with a text that holds neither a
\* decision line nor the word true or false.
C8_ClassifierFailsSafe ==
    clsResult # Pending =>
      /\ clsResult.how = "returns"
      /\ ( \/ clsReply.kind # "text"
           \/ /\ DecisionMatches(TrimText(clsReply.text), TRUE) = {}
              /\ ~Includes(clsReply.text, "true")
              /\ ~Includes(clsReply.text, "false") )
         => clsResult.value = BoolVal(FALSE)

-----------------------------------------------------------------------------
(* Claims about the orchestrators *)

\* The number of SOLVE calls issued before the call at position i
SolvesBefore(i) == Cardinality({j \in CallsOf("solve") : j < i})

\* C6: in the gather/analyze generation at most 3 SOLVE calls are issued, and
\* when the REVIEW that follows the third SOLVE is answered and is not
\* acceptable, the marker ### MAX ATTEMPTS REACHED ### has been yielded and
\* the next call, which is the last, is SUMMARIZE.
C6_SolveCallsBounded ==
    cotGen = "gather" =>
      /\ Cardinality(CallsOf("solve")) <= 3
      /\ \A i \in CallsOf("review") :
           ( /\ SolvesBefore(i) = 3
             /\ calls[i].reply = "text"
             /\ ~(calls[i].text # <<>> /\ calls[i].text[1] = "ACCEPTABLE:") )
           => /\ Count(out, MaxAttemptsMarker) = 1
              /\ Len(calls) = i + 1
              /\ calls[i + 1].phase = "summarize"

\* C6 witness: a run that was refused three times has yielded the marker and
\* has ended with the summary
C6_Witness ==
    /\ cotGen = "gather" /\ cotPc = "done"
    /\ Cardinality(CallsOf("solve")) = 3
    /\ Count(out, MaxAttemptsMarker) = 1
    /\ Last(calls).phase = "summarize" /\ Last(calls).reply = "text"

\* The 15th reasoning step has produced a text and its turn has ended
\* (critique answered, correction answered where one was called) without the
\* completion marker in the text that stands
Step15EndedOpen ==
    /\ Cardinality(CallsOf("step")) >= 15
    /\ \E s \in CallsOf("step") :
         /\ Cardinality({j \in CallsOf("step") : j <= s}) = 15
         /\ calls[s].reply = "text"
         /\ Len(calls) > s
         /\ LET c == calls[s + 1]
            IN /\ c.phase = "critique"
               /\ c.reply \in {"text", "noContent", "error"}
               /\ IF Len(calls) > s + 1 /\ calls[s + 2].phase = "correct"
                  THEN \/ calls[s + 2].reply = "text"
                          /\ Last(calls[s + 2].text) # CompletionMarker
                       \/ calls[s + 2].reply = "noContent"
                          /\ Last(calls[s].text) # CompletionMarker
                  ELSE /\ Last(calls[s].text) # CompletionMarker
                       /\ Last(calls).phase # "critique"

ReviewHasVerdict(text) == text # <<>> /\ text[1] \in {"ACCEPTABLE:", "UNACCEPTABLE:"}

\* The answered REVIEW calls, and the answered critique calls, whose text
\* holds no verdict token
ReviewsWithoutVerdict ==
    {i \in CallsOf("review") : calls[i].reply = "text" /\ ~ReviewHasVerdict(calls[i].text)}
CritiquesWithoutVerdict ==
    {i \in CallsOf("critique") :
        calls[i].reply = "text" /\ CritiqueVerdict(calls[i].text) = "none"}

\* C10 (as stated): a REVIEW or critique output without a verdict token is
\* treated as acceptable: the call that follows it is no SOLVE retry and no
\* correction.
C10_MissingVerdictIsAcceptable ==
    /\ \A i \in ReviewsWithoutVerdict : i = Len(calls) \/ calls[i + 1].phase # "solve"
    /\ \A i \in CritiquesWithoutVerdict : i = Len(calls) \/ calls[i + 1].phase # "correct"

\* C10 (amended): a REVIEW or critique output without a verdict token is
\* treated as not acceptable.  In the gather/analyze generation the next call
\* is the SOLVE retry while fewer than 3 SOLVE calls have been issued, and
\* else the marker ### MAX ATTEMPTS REACHED ### is yielded and the summary
\* called; in the adaptive generation the next call is the correction.  Only
\* a critique call that fails or answers without content is taken as
\* acceptable: no correction call follows it.
C10_MissingVerdictIsRejected ==
    /\ \A i \in ReviewsWithoutVerdict :
         /\ i < Len(calls)
         /\ IF SolvesBefore(i) < 3
            THEN calls[i + 1].phase = "solve" /\ Count(out, RetryMarker) >= 1
            ELSE calls[i + 1].phase = "summarize" /\ Count(out, MaxAttemptsMarker) = 1
    /\ \A i \in CritiquesWithoutVerdict :
         i < Len(calls) /\ calls[i + 1].phase = "correct"
    /\ \A i \in CallsOf("critique") :
         calls[i].reply \in {"noContent", "error"} =>
           i = Len(calls) \/ calls[i + 1].phase # "correct"

\* C10 witness: a critique without verdict token has been followed by the
\* correction call, which has been answered
C10_Witness ==
    \E i \in CritiquesWithoutVerdict :
      /\ i < Len(calls)
      /\ calls[i + 1].phase = "correct"
      /\ calls[i + 1].reply = "text"

-----------------------------------------------------------------------------
(* Claims about the turn controller *)

\* The call of sendMessage has come to its end: it has returned or rejected
TurnOver == sendPc \in {"returned", "rejected"}

\* C1 (as stated, on finite runs): when the call of sendMessage for an
\* accepted message is over, whatever path it took, the assistant message of
\* the turn is complete and isLoading is false.  (Runs without conversation
\* switch.)
C1_TurnEndsComplete ==
    (TurnOver /\ switches = 0) =>
      /\ messages # <<>>
      /\ Last(messages).complete
      /\ ~isLoading

\* The assistant messages that are not complete
OpenMessages ==
    {i \in 1..Len(messages) : messages[i].role = "assistant" /\ ~messages[i].complete}

\* C2 (as stated): at most one assistant message is incomplete, and
\* isLoading is true exactly while there is one.
C2_OneOpenMessage ==
    /\ Cardinality(OpenMessages) <= 1
    /\ isLoading <=> OpenMessages # {}

\* C5 (as stated, on finite runs): when the stop button was pressed while a
\* call or a stream of the orchestrator was in flight, no model call is
\* issued after it, and the turn ends with a complete message whose content
\* holds the aborted marker.  (Runs without conversation switch.)
C5_AbortYieldsMarker ==
    ( /\ switches = 0
      /\ sendPc \in {"cot", "returned", "rejected"}
      /\ abortAt.pc \in {"fetch", "read", "step", "critique", "correct", "summarize"} )
    => /\ Len(calls) = abortAt.calls
       /\ TurnOver => /\ messages # <<>>
                      /\ Last(messages).complete
                      /\ Count(Last(messages).content, AbortMarker) >= 1

\* The classifier has decided true
DecidedTrue ==
    /\ clsResult.how = "returns"
    /\ clsResult.value \in {BoolVal(TRUE), StrVal(<<"true">>)}

\* C9 (as stated): once sendMessage has chosen, the orchestrator is used
\* exactly when the override is true, or the override is absent, auto mode is
\* on and shouldUseReasoning has decided true; with auto mode off and no
\* override the classifier is not called.
C9_OrchestratorChoice ==
    /\ useReasoning # Unset =>
         (cotGen # "idle" <=> (reasoningOverride \/ (autoReasoningMode /\ DecidedTrue)))
    /\ (~reasoningOverride /\ ~autoReasoningMode) => clsResult = Pending


-----------------------------------------------------------------------------
(* Claims about what the orchestrators yield and hand to the summary *)

\* sub occurs in text as a run of consecutive words
Contains(text, sub) ==
    \E i \in 0..(Len(text) - Len(sub)) : SubSeq(text, i + 1, i + Len(sub)) = sub

\* The summary of the adaptive generation has been called after a step whose
\* final text (the text that went into the history) ends with the marker
SummaryAfterMarker ==
    /\ cotGen = "adaptive"
    /\ calls # <<>> /\ Last(calls).phase = "summarize"
    /\ Last(agentMessages).role = "assistant"
    /\ CompletionTest(Last(agentMessages).content)

\* C11 (as stated): when the final text of a step ends with REASONING
\* COMPLETE., the reasoning text handed to the SUMMARIZE call holds that
\* step's text with the marker removed.
C11_SummaryContextHoldsStep ==
    SummaryAfterMarker =>
      Contains(reasoningContextForSummary, StripMarker(Last(agentMessages).content))

\* C12 (as stated): the completion marker is never part of what the adaptive
\* generation yields, and after a step whose final text ends with the marker
\* no further reasoning step is called.
C12_MarkerNeverYielded ==
    cotGen = "adaptive" =>
      /\ Count(out, CompletionMarker) = 0
      /\ \A i \in CallsOf("step") :
           (calls[i].reply = "text" /\ CompletionTest(calls[i].text)
              /\ i + 2 <= Len(calls) /\ calls[i + 2].phase # "correct")
           => \A j \in CallsOf("step") : j <= i

\* The summary call has been issued
SummaryIssued == calls # <<>> /\ Last(calls).phase = "summarize"

\* The answered call at position i of the log is a phase or a step whose text
\* the summary is to be given: every phase of the gather and of the plan
\* generation, every accepted step and every correction of the adaptive one
FeedsSummary(i) ==
    /\ calls[i].reply = "text"
    /\ \/ cotGen \in {"gather", "linear"}
       \/ cotGen = "adaptive" /\ calls[i].phase = "correct"
       \/ /\ cotGen = "adaptive" /\ calls[i].phase = "step"
          /\ i + 2 <= Len(calls) /\ calls[i + 2].phase # "correct"

\* The text of the call at position i is part of what the summary call is sent
InSummaryInput(i) ==
    IF cotGen = "adaptive"
    THEN Contains(reasoningContextForSummary, StripMarker(calls[i].text))
    ELSE \E k \in DOMAIN aggregatedContent :
           aggregatedContent[k] = [phase |-> calls[i].phase, text |-> calls[i].text]

\* C13: the input of the SUMMARIZE call contains the text of every earlier
\* phase or step (gather, analyze, every solve and review; plan, solve and
\* reflect; every accepted or corrected adaptive step)
C13_SummaryInputHoldsEveryStep ==
    SummaryIssued =>
      \A i \in 1..(Len(calls) - 1) : FeedsSummary(i) => InSummaryInput(i)

\* The same for the two generations that keep their phase texts
C13_KeptByGatherAndPlan ==
    cotGen \in {"gather", "linear"} => C13_SummaryInputHoldsEveryStep

\* The run has ended, it was not cancelled and its last call was answered:
\* no error stopped it
CleanEnd ==
    /\ cotGen # "idle" /\ cotPc = "done" /\ ~aborted
    /\ calls # <<>> /\ Last(calls).reply = "text"

\* C14: a run that is neither cancelled nor stopped by an error makes exactly
\* one SUMMARIZE call, that call is its last model call, and the SUMMARIZE
\* header is yielded exactly once, before any text of the summary; no run makes
\* a second SUMMARIZE call or a call after it
C14_OneSummaryCallLast ==
    /\ Cardinality(CallsOf("summarize")) <= 1
    /\ CallsOf("summarize") # {} => Last(calls).phase = "summarize"
    /\ CleanEnd =>
         /\ Cardinality(CallsOf("summarize")) = 1
         /\ Count(out, SummarySeparator) = 1
         /\ \A i \in 1..Len(out) :
              (\E k \in 1..Len(Last(calls).text) : out[i] = Last(calls).text[k])
              => \E j \in 1..(i - 1) : out[j] = SummarySeparator

\* A run with more than the four plain calls ends cleanly with its summary
C14_Witness == CleanEnd /\ Len(calls) > 4 /\ Last(calls).text # <<>>

\* The messages by which a generator shows an error to the reader
VisibleErrors == {StepErrorMsg, CorrectionErrorMsg, SummaryStreamErrorMsg, ErrorMarker}

\* C15: when a phase call answers without choices[0].message.content, the
\* orchestrator yields a visible error marker and terminates: the call is the
\* last model call of the run
C15_NoContentEndsRun ==
    cotGen \in {"adaptive", "linear"} =>
      \A i \in 1..Len(calls) :
        calls[i].reply = "noContent" =>
          /\ \E m \in VisibleErrors : Count(out, m) > 0
          /\ i = Len(calls) /\ Ended

\* The same for the plan generation alone, whose catch ends the run
C15_PlanGenerationEnds == cotGen = "linear" => C15_NoContentEndsRun

\* The error is shown whenever a reasoning step answers without content
C15_StepErrorShown ==
    \A i \in CallsOf("step") : calls[i].reply = "noContent" => Count(out, StepErrorMsg) > 0

\* C16: every network call of a turn is issued with the abort signal of the
\* turn: once the user has aborted while the classifier call was in flight,
\* that call does not settle into a decision and neither the orchestrator nor
\* the single call is started
C16_AbortStopsClassifier ==
    abortAt.pc = "classify" =>
      /\ sendPc \in {"classify", "rejected"}
      /\ useReasoning = Unset
      /\ cotGen = "idle"

\* The step ends the turn in the catch or the finally block of sendMessage:
\* the open assistant message, which has content, is marked complete
TurnClosesWithContent ==
    /\ messages # <<>> /\ Len(messages') = Len(messages) /\ arrayId' = arrayId
    /\ ~Last(messages).complete /\ Last(messages').complete
    /\ Last(messages).content # <<>>

\* C17: when a turn is ended by an error that is no cancellation after deltas
\* were applied, the error annotation is appended: the content received before
\* the error is a prefix of the final content
C17_ErrorAnnotationAppended ==
    [][TurnClosesWithContent =>
         StartsWith(Last(messages').content, Last(messages).content)]_vars

\* The next step of sendMessage is its catch block, entered with an AbortError
CancellationCaught ==
    \/ sendPc = "cot" /\ cotPc = "threw" /\ thrown = "AbortError"
    \/ sendPc = "regular" /\ RegularCancelled

\* On cancellation the content applied to the assistant message is kept
ContentKeptOnCancel ==
    (CancellationCaught /\ TurnClosesWithContent)
    => Last(messages').content = Last(messages).content

\* No step changes the content of a message of the list that is complete
CompleteIsFrozen ==
    arrayId' = arrayId =>
      \A i \in 1..Len(messages) :
        (messages[i].complete /\ i <= Len(messages'))
        => messages'[i].content = messages[i].content

\* C18: on cancellation the content already applied to the assistant message
\* is kept, and the content of a message that has complete = true is never
\* modified again by any later event
C18_CompleteContentFrozen == [][ContentKeptOnCancel /\ CompleteIsFrozen]_vars

\* The first half alone
C18_KeptOnCancel == [][ContentKeptOnCancel]_vars

\* The second half as long as the user does not change the conversation
C18_FrozenWithoutSwitch == [][switches = 0 => CompleteIsFrozen]_vars

\* C19: no record written by createConversation or storeMessages holds an
\* assistant message with complete = false, also when the user sends the next
\* message while the call that stores the previous turn is still awaiting
C19_StoredOnlyComplete ==
    \A c \in ConvIds :
      \A i \in 1..Len(conversations[c]) :
        conversations[c][i].role = "assistant" => conversations[c][i].complete

\* Every turn of the conversation has completed and no storage call is running
AllTurnsStored == turns = MaxTurns + 1 /\ sendPc = "returned" /\ storing = <<>>

\* C20: after every completed turn the stored record of the current
\* conversation holds all messages of the list in memory; when the title
\* request of the first turn fails, a later turn persists the conversation
C20_StoredAfterTurn ==
    AllTurnsStored => (currConvo \in ConvIds /\ conversations[currConvo] = messages)

-----------------------------------------------------------------------------
(* The chat panel (part_010): what is displayed for an assistant message *)

Thinking == <<"...thinking...">>

\* content.includes('🤔 Let me think this through step by step')
IsChainOfThought(content) ==
    \E i \in 1..Len(content) : content[i] \in {Preamble[1], InitialMsg[1]}

\* The piece of index 1 of content.split('### SUMMARIZE ###'): what stands
\* between the first separator and the next one, or the end
SummarizePart(content) ==
    LET first == CHOOSE i \in 1..Len(content) :
                   /\ content[i] = SummarySeparator
                   /\ \A j \in 1..(i - 1) : content[j] # SummarySeparator
        tail == SubSeq(content, first + 1, Len(content))
        stops == {i \in 1..Len(tail) : tail[i] = SummarySeparator}
    IN IF stops = {} THEN tail
       ELSE SubSeq(tail, 1, (CHOOSE i \in stops : \A j \in stops : i <= j) - 1)

\* getSolutionOnly(content); the code never yields '### SUMMARY ###'.  The
\* rule lines "---" are removed by replace(/---+/g, ''); of an error or abort
\* marker the words remain.
GetSolutionOnly(content) ==
    IF ~IsChainOfThought(content) THEN content
    ELSE IF Count(content, SummarySeparator) = 0 THEN Thinking
    ELSE SelectSeq(SummarizePart(content), LAMBDA t : t # "---")

\* The reasoning turn has ended through an error of the orchestrator or
\* through a cancellation
ReasoningTurnFailed ==
    /\ sendPc = "returned" /\ switches = 0 /\ UsesOrchestrator(useReasoning)
    /\ messages # <<>> /\ Last(messages).complete
    /\ \/ cotPc = "threw"
       \/ calls # <<>> /\ Last(calls).reply \in {"error", "aborted", "noContent"}

\* C21: for a reasoning turn that has ended through an orchestrator error or a
\* cancellation, the chat panel displays terminal text for the assistant
\* message, not the `...thinking...` placeholder
C21_FailedTurnShowsTerminalText ==
    ReasoningTurnFailed => GetSolutionOnly(Last(messages).content) # Thinking

\* The step is a call of sendMessage made while a turn is open or with a
\* message that is empty or blank
RejectedCall ==
    /\ lastCall'.n # lastCall.n
    /\ isLoading \/ Trim(lastCall'.message) = <<>>

\* C22: a call of sendMessage made while a turn is open or with an empty or
\* whitespace-only message has no effect: no message is appended, no network
\* or storage call is made, the controller of the open turn is not replaced
C22_RejectedCallHasNoEffect ==
    [][RejectedCall =>
         UNCHANGED <<messages, isLoading, sendPc, calls, storing, conversations,
                     controller, aborted, turns>>]_vars

\* A call with the prompt has been turned away because a turn is open
C22_Witness ==
    /\ lastCall.n > turns /\ lastCall.message = UserMsg.content
    /\ isLoading /\ messages # <<>>

\* The step is the end of a run of handleIncomingMessage in its catch block
HimCaught == decoder = "handleIncomingMessage" /\ ~streamDone /\ himPc' = "caught"

\* The catch block yields exactly this chunk, as the last one
HimEndsWith(chunk) == yielded' = Append(yielded, chunk) /\ streamDone'

HasErrorText(content) ==
    StartsWith(content, ErrorText) \/ Count(content, FailedResponseText[1]) > 0

C24_CancelDuringStream ==
    [][(sendPc = "regularRead" /\ RegularCancelled /\ messages # <<>>)
       => Last(messages').content = Last(messages).content]_vars

\* The stream is a frame that fails to parse followed by a valid frame, and
\* the decoder has read it to its end
BrokenStreamRead ==
    /\ stream \in BrokenJsonStreams \cup BrokenSseStreams
    /\ streamDone /\ rest = <<>> /\ himPc \in {"idle", "returned"}

\* C25: in both decoders a frame that fails to parse is skipped without
\* raising and every valid frame that follows it is still emitted, in order,
\* also when the unparseable frame is the last piece of a received chunk
C25_ValidFrameAfterBrokenEmitted ==
    (BrokenStreamRead /\ decoder \in {"processStream", "readStream"})
    => yielded = <<Delta("c", <<"b">>)>>

\* The same for readStream alone, and for processStream when the broken frame
\* ends with the closing brace of its object
C25_HoldsForClosedFrames ==
    (BrokenStreamRead /\ decoder \in {"processStream", "readStream"}
       /\ (decoder = "processStream" => stream[5] = "}"))
    => yielded = <<Delta("c", <<"b">>)>>

\* C26: in handleIncomingMessage, once a `data: [DONE]` line has been read no
\* line that follows it, in the same chunk or in a later chunk, produces a
\* yielded delta
C26_NothingYieldedAfterDone ==
    [][(decoder = "handleIncomingMessage" /\ sawDone /\ himPc' = "stream")
         => yielded' = yielded]_vars

\* A SOLVE call of gather/analyze made after an unacceptable review
RetrySolveCall ==
    /\ cotGen = "gather" /\ cotPc \in {"fetch", "read"}
    /\ currentStep = "solve" /\ attempts > 0

\* C27: when the review finds the solution unacceptable and a retry is made,
\* the task instructions of the next SOLVE call contain the feedback of the
\* review (lastReviewFeedback) verbatim
C27_RetrySolveCarriesFeedback ==
    RetrySolveCall => Contains(TaskInstructions(currentStep), lastReviewFeedback)

\* What the claim gives for a reply text: the value of the first
\* `Decision: true|false` line when there is one, else whether the text holds
\* the word true and not the word false
DecisionOfText(t) ==
    LET ms == DecisionMatches(t, TRUE)
    IN IF ms # {}
       THEN Lower(t[CHOOSE m \in ms : \A o \in ms : m <= o]) = "true"
       ELSE Includes(t, "true") /\ ~Includes(t, "false")

\* shouldUseReasoning has classified a reply that carries a text
ClassifiedText ==
    /\ clsGen \in {"part_005", "part_007"}
    /\ clsResult # Pending /\ clsReply.kind = "text"

\* C28: shouldUseReasoning returns the value of a `Decision: true|false` line
\* when one is present; otherwise true when the text holds the word true and
\* not false, false when it holds false and not true, and false when it
\* holds both or neither
C28_DecisionLineElseKeywords ==
    ClassifiedText =>
      clsResult = Returns(BoolVal(DecisionOfText(TrimText(clsReply.text))))

\* The same for part_007 alone
C28_HoldsForPart007 ==
    (ClassifiedText /\ clsGen = "part_007") =>
      clsResult = Returns(BoolVal(DecisionOfText(TrimText(clsReply.text))))

\* The call of sendMessage for a reasoning-mode turn has returned
ReasoningTurnOver ==
    /\ sendPc = "returned" /\ switches = 0 /\ UsesOrchestrator(useReasoning)
    /\ messages # <<>>

\* The duration of the assistant message was written once, with a value that
\* is not negative
DurationSetOnce ==
    /\ Len(Last(messages).reasoningDuration) = 1
    /\ Last(messages).reasoningDuration[1] >= 0

\* C29: for every reasoning-mode turn reasoningDuration is set exactly once
\* by the time the turn is complete, on every terminating path (success,
\* error, cancellation), to the non-negative difference of end and start
C29_DurationSetOnEveryPath == ReasoningTurnOver => DurationSetOnce

\* The same for the turns whose orchestrator returned
C29_DurationSetOnReturn == (ReasoningTurnOver /\ cotPc = "done") => DurationSetOnce

\* The request has been built
RequestBuilt == requestBody # NoBody

\* C30: in the request body of handleIncomingMessage each optional parameter
\* (temperature, top_p, max_tokens, seed, presence_penalty, frequency_penalty)
\* is present only when its value is non-null, and reasoning_effort is present
\* only when the selected model is flagged reasoning-capable, reasoning is
\* enabled and an effort is set
C30_OptionalOnlyWhenSet ==
    RequestBuilt =>
      /\ \A k \in SamplingParams \cup OptionalParams :
           k \in DOMAIN requestBody => NonNull(modelParameters[k])
      /\ "reasoning_effort" \in DOMAIN requestBody =>
           /\ ModelReasons(selectedModel)
           /\ modelParameters.reasoning.enabled
           /\ Truthy(modelParameters.reasoning.effort)

\* The same without temperature and top_p
C30_HoldsForTheGuardedParameters ==
    RequestBuilt =>
      /\ \A k \in OptionalParams :
           k \in DOMAIN requestBody => NonNull(modelParameters[k])
      /\ "reasoning_effort" \in DOMAIN requestBody =>
           /\ ModelReasons(selectedModel)
           /\ modelParameters.reasoning.enabled
           /\ Truthy(modelParameters.reasoning.effort)
-----------------------------------------------------------------------------
(* Claims about the order of the calls, the conversations and the storage *)

\* Every call but the last one issued has been answered
OneCallInFlight == \A i \in 1..(Len(calls) - 1) : calls[i].reply # "pending"

\* No call of the chosen path exists while the memory or the classifier is
\* awaited, and a path chosen by the classifier is entered after it returned
ClassifierFirst ==
    /\ sendPc \in {"memory", "classify"} => calls = <<>>
    /\ (sendPc \in {"cot", "regular", "regularRead"} /\ ~reasoningOverride /\ autoReasoningMode)
         => clsResult # Pending /\ clsResult.how = "returns"

\* The step issues the next phase call of gather/analyze
GatherIssuesNext ==
    /\ cotGen = "gather" /\ calls # <<>> /\ Len(calls') = Len(calls) + 1

\* The response of the phase before has been read to its end and yielded
PhaseReceivedAndYielded ==
    /\ pending = <<>>
    /\ calls'[Len(calls)].reply = "text" /\ calls'[Len(calls)].text = stepContent
    /\ Len(out) >= Len(stepContent)
    /\ SubSeq(out, Len(out) - Len(stepContent) + 1, Len(out)) = stepContent

TurnListReplaced ==
    /\ sendPc \notin {"idle", "returned", "rejected"}
    /\ messages # <<>> /\ Last(messages).complete

\* C32: the deltas of a turn are applied only to the assistant message created
\* by that turn: when changeConversation, newConversation or
\* deleteConversation runs while the turn is streaming, no delta, error text
\* or flag of the turn is written to a message of another conversation
C32_TurnWritesOwnMessageOnly ==
    [][(TurnListReplaced /\ arrayId' = arrayId) => messages' = messages]_vars

\* C33: after every accepted sendMessage isLoading eventually becomes false
\* again, whatever user actions are interleaved with the turn, also when the
\* list of messages is emptied while the turn is streaming
C33_LoadingEventuallyEnds == isLoading ~> ~isLoading

\* The same for the turns whose call of sendMessage returns
C33_ReturnedCallEndsLoading == sendPc = "returned" => ~isLoading

\* The calls of the orchestrator that the step answers
AnsweredByStep ==
    {i \in 1..Len(calls') :
       /\ calls'[i].reply # "pending"
       /\ i > Len(calls) \/ calls[i].reply = "pending"}

\* The step is taken by a turn that is open and that the user has aborted
StepOfAbortedTurn == isLoading /\ aborted /\ aborted'

\* C34: an abort requested at any moment while a turn is open aborts the
\* controller whose signal the network calls of the turn hold: the call in
\* flight, or the next one, is cancelled, be it a call of the orchestrator,
\* the classifier call or the single call
C34_AbortCancelsTurnCalls ==
    [][StepOfAbortedTurn =>
         /\ \A i \in AnsweredByStep : calls'[i].reply = "aborted"
         /\ sendPc = "classify" => sendPc' \in {"classify", "rejected"}
         /\ sendPc = "regular" => sendPc' # "regularRead"]_vars

\* The same for the calls of gather/analyze, which reads the signal from the
\* ref it is handed
C34_HoldsForGather ==
    [][(StepOfAbortedTurn /\ cotGen = "gather") =>
         \A i \in AnsweredByStep : calls'[i].reply = "aborted"]_vars

\* Every call made on the storage has run to its end
AllOpsDone == ops # <<>> /\ \A i \in 1..Len(ops) : ops[i].pc = "done"

\* The index has exactly one entry for each record and none for another id
IndexMatchesRecords ==
    \A id \in StoreIds :
      Cardinality({k \in 1..Len(metadata) : metadata[k] = id}) = (IF records[id] THEN 1 ELSE 0)

\* C35: after any interleaving of createConversation, storeMessages and
\* deleteConversation calls has run to completion, conversations_metadata has
\* exactly one entry for each stored record and no entry for an id without a
\* record
C35_IndexMatchesRecords == AllOpsDone => IndexMatchesRecords

\* The same when a single call is made: no other call changes the index
\* between its read and its write
C35_HoldsWithoutOverlap ==
    (AllOpsDone /\ Len(ops) = 1) => IndexMatchesRecords

\* C36: once deleteConversation(id) has completed, neither the record
\* conversation_<id> nor an entry of the index for id exists at any later
\* time, even if a storeMessages(id, ...) call was in flight when the deletion
\* ran
C36_DeletedStaysDeleted ==
    \A i \in 1..Len(ops) :
      (ops[i].kind = "delete" /\ ops[i].pc = "done")
      => /\ ~records[ops[i].id]
         /\ \A k \in 1..Len(metadata) : metadata[k] # ops[i].id

\* The critique calls of the adaptive generation that failed without being
\* cancelled, and the ones that were cancelled
FailedCritiques ==
    {i \in CallsOf("critique") : calls[i].reply \in {"noContent", "error"}}
CancelledCritiques == {i \in CallsOf("critique") : calls[i].reply = "aborted"}

\* C37: in the adaptive generation a critique call that fails with an error
\* that is no cancellation, or that returns no content, leaves the step
\* accepted and no correction call is issued; a critique call that fails
\* because of a cancellation ends the run with the aborted marker and no
\* further call
C37_FailedCritiqueAccepts ==
    cotGen = "adaptive" =>
      /\ \A i \in FailedCritiques :
           /\ i = Len(calls) => ~critiqueResult.isFlawed
           /\ i < Len(calls) => calls[i + 1].phase # "correct"
      /\ \A i \in CancelledCritiques :
           /\ i = Len(calls) /\ cotPc = "done"
           /\ Last(out) = AbortMarker

\* A critique call has failed and the generation has gone on to its next call
C37_Witness ==
    /\ cotGen = "adaptive"
    /\ \E i \in FailedCritiques : i < Len(calls) /\ calls[i + 1].phase \in {"step", "summarize"}

\* A critique call has been cancelled
C37_CancelledReached == cotGen = "adaptive" /\ CancelledCritiques # {}

\* The list a reasoning step is called with: the step call in flight was
\* handed agentMessages, which does not change before the call is answered
StepCallInFlight == cotGen = "adaptive" /\ cotPc = "step"

\* The list holds the agent system prompt and the prompt of the user and has
\* no more than 15 messages
StepListInBounds ==
    /\ Len(agentMessages) <= 15
    /\ \E i \in 1..Len(agentMessages) : agentMessages[i] = InitialAgentMessages[1]
    /\ \E i \in 1..Len(agentMessages) : agentMessages[i] = InitialAgentMessages[4]

\* The step ends a turn of the agent loop and trims the list
TrimStep ==
    /\ cotGen = "adaptive" /\ agentMessages # <<>>
    /\ agentMessages' # agentMessages
    /\ Len(agentMessages') <= Len(agentMessages)

\* What is kept: every system message, the prompt of the user, and the five
\* assistant messages added last, the one of this turn included
TrimKeeps ==
    /\ Filter(agentMessages', "system") = Filter(agentMessages, "system")
    /\ Filter(agentMessages', "user") = Filter(agentMessages, "user")
    /\ Filter(agentMessages', "assistant") =
         SliceLast(Append(Filter(agentMessages, "assistant"), Last(agentMessages')), 5)
    /\ Len(Filter(agentMessages', "assistant")) = 5

\* C39: in the adaptive generation the list of messages sent for every
\* reasoning step holds the agent system prompt and the prompt of the user and
\* never more than 15 messages; when the list is trimmed it keeps all system
\* messages, the prompt of the user and the 5 most recent assistant steps
C39_StepListBoundedAndAnchored ==
    /\ [](StepCallInFlight => StepListInBounds)
    /\ [][TrimStep => TrimKeeps]_vars

\* A step called with a list that has been trimmed
C39_Witness ==
    /\ StepCallInFlight /\ stepCount > 12
    /\ Len(agentMessages) < 4 + (stepCount - 1)

\* saveSettings has resolved
SaveResolved == save.pc = "resolved"

\* Storage and memory hold the settings that were saved, and the flag says
\* whether the saved prompt is the default one after trimming
SavedSettingsHeld ==
    /\ storedSettings = save.item /\ settings = save.item
    /\ save.item.is_default_system_prompt = "true"
         <=> TrimPrompt(save.item.system_prompt) = TrimPrompt(defaultSettings.system_prompt)

\* C38: after saveSettings has resolved, the settings held in storage and in
\* memory are the saved ones, with is_default_system_prompt true exactly when
\* the saved prompt equals the default prompt after trimming, also when a
\* loadSettings call that started earlier completes after the save
C38_SavedSettingsHeld == SaveResolved => SavedSettingsHeld

\* The same when every loadSettings call made earlier had returned before
\* saveSettings was called
C38_HeldAfterQuietSave == (SaveResolved /\ save.quiet) => SavedSettingsHeld
=============================================================================
